---- MODULE Spec2Model ----
(***************************************************************************)
(* A model of the CRSF client crsf.py: the CRC8 engine, the frame codec,   *)
(* the stream parser (crsf_parser.digest), the parameter entity           *)
(* (CRSFParam) and the device poll scheduler (CRSFDevice).                *)
(*                                                                         *)
(* Bytes are integers 0..255, byte strings are sequences of bytes.        *)
(* Python's None is NoneVal where a byte is expected and the empty        *)
(* sequence where a buffer or list is expected.                           *)
(***************************************************************************)
EXTENDS Integers, Sequences, FiniteSets, TLC

(***************************************************************************)
(* Bounds of the model                                                     *)
(***************************************************************************)
MaxFed == 4          \* longest raw byte string fed to the parser
MaxBody == 2         \* longest body handed to create_frame
MaxFrames == 2       \* most frames concatenated on the wire
MaxNoise == 3        \* longest noise prefix
MaxChunks == 3       \* most chunks a parameter entry is split into
MaxDeliver == 4      \* most frames handed to one parameter
MaxReceive == 4      \* most frames handed to one device
MaxTicks == 2        \* most poll periods that pass
MaxRead == 4         \* most frames read by run()
MaxElapsed == 602    \* tenths of a second run() is followed for

(***************************************************************************)
(* Program constants                                                       *)
(***************************************************************************)
SYNC == 200                    \* CRSF.SYNC = 0xc8
MSG_TYPE_PING == 40            \* 0x28
MSG_TYPE_PARAM_ENTRY == 43     \* 0x2B
MSG_TYPE_PARAM_READ == 44      \* 0x2C
MSG_TYPE_MAVLINK_ENV == 170    \* 0xAA
BROADCAST_ADDR == 0
REMOTE_ADDR == 234             \* 0xEA
TX_ADDR == 238                 \* 0xEE
FC_ADDR == 200                 \* 0xC8
ORIGIN_ADDR == FC_ADDR         \* eval("CRSF.FC_ADDR")
OFFSET_LENGTH == 1
RESET_VALUE == 0
POLYNOM_1 == 213               \* 0xD5
MSB_SET == 128                 \* 0x80
FINISH_VALUE == 0

NoneVal == -1

(***************************************************************************)
(* Bit operations on Python's unbounded non-negative integers              *)
(***************************************************************************)
RECURSIVE BitXor(_, _)
BitXor(a, b) ==
    IF a = 0 THEN b
    ELSE IF b = 0 THEN a
    ELSE (((a % 2) + (b % 2)) % 2) + 2 * BitXor(a \div 2, b \div 2)

Min(a, b) == IF a < b THEN a ELSE b

\* Python slice s[from:] (0-based from), as a sequence
DropFirst(s, n) == SubSeq(s, n + 1, Len(s))

\* Python s.index(x): 0-based position of the first x, or NoneVal (ValueError)
RECURSIVE IndexFrom(_, _, _)
IndexFrom(s, x, i) ==
    IF i > Len(s) THEN NoneVal
    ELSE IF s[i] = x THEN i - 1
    ELSE IndexFrom(s, x, i + 1)

Index(s, x) == IndexFrom(s, x, 1)

Contains(s, x) == \E i \in 1..Len(s) : s[i] = x

\* all sequences over S of length lo..hi
RECURSIVE SeqsOfLen(_, _)
SeqsOfLen(S, n) ==
    IF n = 0 THEN {<<>>}
    ELSE LET shorter == SeqsOfLen(S, n - 1)
         IN {Append(s, x) : s \in shorter, x \in S}

BSeq(S, lo, hi) == UNION {SeqsOfLen(S, n) : n \in lo..hi}

(***************************************************************************)
(* crsf_crc8                                                               *)
(***************************************************************************)
RECURSIVE Pow2(_)
Pow2(n) == IF n = 0 THEN 1 ELSE 2 * Pow2(n - 1)

\* x & MSB_SET for a non-negative x of any width
AndMsb(x) == ((x \div MSB_SET) % 2) * MSB_SET

\* a ^ b for a non-negative a of any width and a byte b
\* p is the weight of the bit (1, 2, 4, ...)
XorBit(a, b, p) == ((((a \div p) % 2) + ((b \div p) % 2)) % 2) * p

XorByte(a, b) ==
    (a \div 256) * 256
    + XorBit(a, b, 1) + XorBit(a, b, 2) + XorBit(a, b, 4) + XorBit(a, b, 8)
    + XorBit(a, b, 16) + XorBit(a, b, 32) + XorBit(a, b, 64) + XorBit(a, b, 128)

\* one pass of the loop body of crsf_crc8._calc: val and byte are the values
\* at the top of the pass (neither is masked inside the loop); the result is
\* val at the end of the pass

CalcBit(val, byte, poly) ==
    LET msb_flag == AndMsb(val)
        shifted == 2 * val + (IF AndMsb(byte) # 0 THEN 1 ELSE 0)
    IN IF msb_flag # 0 THEN XorByte(shifted, poly) ELSE shifted

\* the for loop of crsf_crc8._calc with i passes left (byte <<= 1 in each)
CalcLoop[i \in 0..8, val \in Nat, byte \in Nat, poly \in 0..255] ==
    IF i = 0 THEN val
    ELSE CalcLoop[i - 1, CalcBit(val, byte, poly), 2 * byte, poly]

\* crsf_crc8._calc: eight passes, then val &= 0xFF
Calc(val, byte, poly) == CalcLoop[8, val, byte, poly] % 256

\* crsf_crc8.digest of bytes[i..]
CrcDigestFrom[i \in Nat, val \in 0..255, bytes \in Seq(0..255), poly \in 0..255] ==
    IF i > Len(bytes) THEN val
    ELSE CrcDigestFrom[i + 1, Calc(val, bytes[i], poly), bytes, poly]

CrcDigest(val, bytes, poly) == CrcDigestFrom[1, val, bytes, poly]

\* crsf_crc8.finish
CrcFinishNoFold(val, poly) == val

CrcFinish(val, poly) == Calc(val, FINISH_VALUE, poly)

calc_crc8(bytes) == CrcFinish(CrcDigest(RESET_VALUE, bytes, POLYNOM_1), POLYNOM_1)

(***************************************************************************)
(* crsf_frame: a frame is its byte string                                  *)
(***************************************************************************)
FrameType(f) == f[3]

IsExtendedNoPing(f) ==
    (FrameType(f) > 40 /\ FrameType(f) <= 150) \/ FrameType(f) = MSG_TYPE_MAVLINK_ENV

IsExtended(f) ==
    (FrameType(f) >= 40 /\ FrameType(f) <= 150) \/ FrameType(f) = MSG_TYPE_MAVLINK_ENV

FrameOrigin(f) == IF IsExtended(f) THEN f[5] ELSE NoneVal
FrameDestination(f) == IF IsExtended(f) THEN f[4] ELSE NoneVal
FramePayload(f) == SubSeq(f, (IF IsExtended(f) THEN 5 ELSE 3) + 1, Len(f) - 1)

\* create_frame

create_frame(body) ==
    LET frame0 == <<SYNC, 0>> \o body
        frame == [frame0 EXCEPT ![OFFSET_LENGTH + 1] = Len(frame0) - 1]
    IN Append(frame, calc_crc8(DropFirst(frame, 2)))

(***************************************************************************)
(* crsf_parser.digest                                                      *)
(***************************************************************************)
\* inner while loop: discard bytes until the buffer starts with SYNC
DropNonSyncOnce(d) ==
    IF Len(d) > 0 /\ d[1] # SYNC THEN Tail(d) ELSE d

\* a parser that discards nothing
DropNonSyncNever(d) == d

RECURSIVE DropNonSync(_)
DropNonSync(d) ==
    IF Len(d) > 0 /\ d[1] # SYNC THEN DropNonSync(Tail(d)) ELSE d

\* frame_len = self.data[1] + 2
ParserFrameLenShort(d) == d[2] + 1

ParserFrameLen(d) == d[2] + 2

\* crc_byte == calc_crc

CrcMatches(d, frame_len) ==
    d[frame_len] = calc_crc8(SubSeq(d, 3, frame_len - 1))

\* what the parser does on a CRC mismatch: self.data = self.data[1:]
OnMismatchDropAll(d, frame_len) == <<>>

OnMismatch(d, frame_len) == DropFirst(d, 1)

\* the outer while loop, run until it breaks; frames is the list of frames
\* yielded so far
RECURSIVE DigestLoop(_, _)
DigestLoop(d0, frames) ==
    IF Len(d0) >= 4
    THEN LET d == DropNonSync(d0)
         IN IF Len(d) > 1
            THEN LET frame_len == ParserFrameLen(d)
                 IN IF Len(d) >= frame_len
                    THEN IF CrcMatches(d, frame_len)
                         THEN DigestLoop(DropFirst(d, frame_len),
                                         Append(frames, SubSeq(d, 1, frame_len)))
                         ELSE DigestLoop(OnMismatch(d, frame_len), frames)
                    ELSE [data |-> d, frames |-> frames]
            ELSE [data |-> d, frames |-> frames]
    ELSE [data |-> d0, frames |-> frames]

\* crsf_parser.digest(bytes) on a parser whose buffer is buf
ParserDigest(buf, bytes) == DigestLoop(buf \o bytes, <<>>)

(***************************************************************************)
(* Python values                                                           *)
(***************************************************************************)
None == <<>>               \* None in an optional field
Some(x) == <<x>>           \* a value in an optional field

\* s[a:b] and s[a:] with 0 <= a (Python clamps the slice to the sequence)
PySlice(s, a, b) == SubSeq(s, a + 1, Min(b, Len(s)))
PyFrom(s, a) == SubSeq(s, a + 1, Len(s))

\* bytes.decode(): UTF-8 to code points; ok is FALSE for UnicodeDecodeError
RECURSIVE Utf8At(_, _)
Utf8At(bs, i) ==
    IF i > Len(bs) THEN [ok |-> TRUE, str |-> <<>>]
    ELSE LET b == bs[i]
             n == IF b < 128 THEN 1
                  ELSE IF b \in 194..223 THEN 2
                  ELSE IF b \in 224..239 THEN 3
                  ELSE IF b \in 240..244 THEN 4
                  ELSE 0
             lo2 == IF b = 224 THEN 160 ELSE IF b = 240 THEN 144 ELSE 128
             hi2 == IF b = 237 THEN 159 ELSE IF b = 244 THEN 143 ELSE 191
             valid == /\ n >= 1
                      /\ i + n - 1 <= Len(bs)
                      /\ n >= 2 => bs[i + 1] \in lo2..hi2
                      /\ n >= 3 => bs[i + 2] \in 128..191
                      /\ n >= 4 => bs[i + 3] \in 128..191
             cp == IF n = 1 THEN b
                   ELSE IF n = 2 THEN (b - 192) * 64 + (bs[i + 1] - 128)
                   ELSE IF n = 3 THEN (b - 224) * 4096 + (bs[i + 1] - 128) * 64
                                      + (bs[i + 2] - 128)
                   ELSE (b - 240) * 262144 + (bs[i + 1] - 128) * 4096
                        + (bs[i + 2] - 128) * 64 + (bs[i + 3] - 128)
         IN IF ~valid THEN [ok |-> FALSE, str |-> <<>>]
            ELSE LET rest == Utf8At(bs, i + n)
                 IN [ok |-> rest.ok, str |-> <<cp>> \o rest.str]

Utf8Decode(bs) == Utf8At(bs, 1)

\* str.split(sep) for a one-character separator
RECURSIVE SplitFrom(_, _, _, _)
SplitFrom(str, sep, i, cur) ==
    IF i > Len(str) THEN <<cur>>
    ELSE IF str[i] = sep THEN <<cur>> \o SplitFrom(str, sep, i + 1, <<>>)
    ELSE SplitFrom(str, sep, i + 1, Append(cur, str[i]))

Split(str, sep) == SplitFrom(str, sep, 1, <<>>)

\* Python integers beyond 31 bits: <<q, r>> is q * 65536 + r, 0 <= r < 65536
Wide(q, r) == <<q, r>>
WideNeg(x) == IF x[2] = 0 THEN Wide(-x[1], 0) ELSE Wide(-x[1] - 1, 65536 - x[2])
WideDec(x) == IF x[2] = 0 THEN Wide(x[1] - 1, 65535) ELSE Wide(x[1], x[2] - 1)
WideInvert(x) == WideDec(WideNeg(x))           \* ~x is -x - 1

\* CRSF.decode_int32

decode_int32(d) ==
    LET uint32 == Wide(d[1] * 256 + d[2], d[3] * 256 + d[4])
    IN IF AndMsb(d[1]) # 0 THEN WideDec(WideNeg(WideInvert(uint32))) ELSE uint32

(***************************************************************************)
(* CRSFParam                                                               *)
(***************************************************************************)
TEXT_SELECTION_TYPE == 9
STRING_TYPE == 10
FOLDER_TYPE == 11
INFO_TYPE == 12
COMMAND_TYPE == 13
FLOAT_TYPE == 8

\* CRSFParam.__init__
NewParam(param_num, now_) ==
    [num |-> param_num,
     parent_folder |-> None,
     type |-> None,
     name |-> <<46, 46, 46>>,
     chunks |-> <<>>,
     value |-> None,
     hidden |-> 0,
     min |-> None, default |-> None, max |-> None,
     unit |-> None,
     children |-> None,
     options |-> <<>>,
     max_length |-> None,
     decimal_point |-> None,
     step_size |-> None,
     status |-> None,
     timeout |-> None,
     info |-> None,
     created_time |-> now_,
     obtained_time |-> 0]

is_folder(p) == p.type = Some(FOLDER_TYPE)

\* the outcome of a method: the object afterwards and the exception that
\* escaped it ("" when it returned)
Ret(p, exc) == [p |-> p, exc |-> exc]

RECURSIVE NoneSlots(_)
NoneSlots(n) == IF n = 0 THEN <<>> ELSE Append(NoneSlots(n - 1), None)

\* the three conditions on a buffer whose last slot was just filled

ChunksComplete(chunks, num) ==
    /\ \A i \in 1..Len(chunks) : chunks[i] # None
    /\ \A i \in 1..Len(chunks) : chunks[i][1][2] = Len(chunks) - i
    /\ \A i \in 1..Len(chunks) : chunks[i][1][1] = num

\* payload = self.chunks[0][:2]; for x in self.chunks: payload += x[2:]
RECURSIVE ConcatTails(_, _)
ConcatTails(chunks, from) ==
    IF Len(chunks) = 0 THEN <<>>
    ELSE PyFrom(Head(chunks)[1], from) \o ConcatTails(Tail(chunks), from)

ReassembleKeepHeaders(chunks) ==
    PySlice(chunks[1][1], 0, 2) \o ConcatTails(chunks, 0)

Reassemble(chunks) ==
    PySlice(chunks[1][1], 0, 2) \o ConcatTails(chunks, 2)

\* the common fields set by every successful decode
Common(p, parent_folder, data_type, name, hidden) ==
    [p EXCEPT !.parent_folder = Some(parent_folder),
              !.type = Some(data_type),
              !.name = name,
              !.hidden = hidden]

DecodeFolder(p, payload, chunks_remain, now_, nul, parent_folder, data_type, name, hidden) ==
    LET e == Index(PyFrom(payload, nul + 1), 255)
        end == nul + 1 + e
        children == PySlice(payload, nul + 1, end)
    IN IF e = NoneVal THEN Ret(p, "")
       ELSE IF chunks_remain = 0
       THEN Ret([Common(p, parent_folder, data_type, name, hidden)
                    EXCEPT !.children = Some(children),
                           !.obtained_time = now_], "")
       ELSE Ret(p, "")

\* payload[nul + 2] * 0.1 if payload[nul + 2] % 10 else payload[nul + 2] // 10:
\* the number of seconds as <<numerator, denominator>>
CommandTimeout(b) == IF b % 10 # 0 THEN <<b, 10>> ELSE <<b \div 10, 1>>

DecodeCommand(p, payload, chunks_remain, now_, nul, parent_folder, data_type, name, hidden) ==
    LET e == Index(PyFrom(payload, nul + 3), 0)
        end == nul + 3 + e
        info == Utf8Decode(PySlice(payload, nul + 3, end))
    IN IF e = NoneVal \/ ~info.ok THEN Ret(p, "")
       ELSE IF chunks_remain = 0
       THEN Ret([Common(p, parent_folder, data_type, name, hidden)
                    EXCEPT !.status = Some(payload[nul + 2]),
                           !.timeout = Some(CommandTimeout(payload[nul + 3])),
                           !.info = Some(info.str),
                           !.obtained_time = now_], "")
       ELSE Ret(p, "")

DecodeFloat(p, payload, chunks_remain, now_, nul, parent_folder, data_type, name, hidden) ==
    LET e == Index(PyFrom(payload, nul + 22), 0)
        end == nul + 22 + e
        unit == Utf8Decode(PySlice(payload, nul + 22, end))
    IN IF e = NoneVal \/ ~unit.ok THEN Ret(p, "")
       ELSE IF chunks_remain = 0
       THEN Ret([Common(p, parent_folder, data_type, name, hidden)
                    EXCEPT !.value = Some(decode_int32(PySlice(payload, nul + 1, nul + 5))),
                           !.min = Some(decode_int32(PySlice(payload, nul + 5, nul + 9))),
                           !.max = Some(decode_int32(PySlice(payload, nul + 9, nul + 13))),
                           !.default = Some(decode_int32(PySlice(payload, nul + 13, nul + 17))),
                           !.decimal_point = Some(payload[nul + 18]),
                           !.step_size = Some(decode_int32(PySlice(payload, nul + 18, nul + 22))),
                           !.unit = Some(unit.str),
                           !.obtained_time = now_], "")
       ELSE Ret(p, "")

DecodeString(p, payload, chunks_remain, now_, nul, parent_folder, data_type, name, hidden) ==
    LET e == Index(PyFrom(payload, nul + 1), 0)
        end == nul + 1 + e
        value == Utf8Decode(PySlice(payload, nul + 1, end))
    IN IF e = NoneVal \/ ~value.ok THEN Ret(p, "")
       ELSE IF data_type = STRING_TYPE /\ end + 2 > Len(payload)
       THEN Ret(p, "IndexError")
       ELSE LET max_length == IF data_type = STRING_TYPE THEN payload[end + 2]
                                                         ELSE Len(value.str)
                p1 == [p EXCEPT !.max_length = Some(max_length)]
            IN IF chunks_remain = 0
               THEN Ret([Common(p1, parent_folder, data_type, name, hidden)
                            EXCEPT !.value = Some(value.str),
                                   !.obtained_time = now_], "")
               ELSE Ret(p1, "")

DecodeSelection(p, payload, chunks_remain, now_, nul, parent_folder, data_type, name, hidden) ==
    LET e == Index(PyFrom(payload, nul + 1), 0)
        end == nul + 1 + e
        options == Utf8Decode(PySlice(payload, nul + 1, end))
        four == PySlice(payload, end + 1, end + 5)
    IN IF e = NoneVal \/ ~options.ok THEN Ret(p, "")
       ELSE IF Len(four) # 4 THEN Ret(p, "ValueError")
       ELSE IF chunks_remain = 0
       THEN Ret([Common(p, parent_folder, data_type, name, hidden)
                    EXCEPT !.value = Some(four[1]),
                           !.options = Split(options.str, 59),
                           !.min = Some(four[2]),
                           !.default = Some(four[4]),
                           !.max = Some(four[3]),
                           !.obtained_time = now_], "")
       ELSE Ret(p, "")

DecodeOther(p, payload, chunks_remain, now_, nul, parent_folder, data_type, name, hidden) ==
    LET p1 == Common(p, parent_folder, data_type, name, hidden)
    IN IF chunks_remain = 0 THEN Ret([p1 EXCEPT !.obtained_time = now_], "")
       ELSE Ret(p1, "")

\* CRSFParam.process_frame from "parent_folder, data_type = payload[2:4]" on
DecodeEntry(p, payload, chunks_remain, now_) ==
    IF Len(PySlice(payload, 2, 4)) # 2 THEN Ret(p, "ValueError")
    ELSE LET parent_folder == payload[3]
             hidden == AndMsb(payload[4])
             data_type == payload[4] % 128
             n0 == Index(PyFrom(payload, 4), 0)
             nul == 4 + n0
             name == Utf8Decode(PySlice(payload, 4, nul))
         IN IF n0 = NoneVal \/ ~name.ok THEN Ret(p, "")
            ELSE IF data_type = FOLDER_TYPE
            THEN DecodeFolder(p, payload, chunks_remain, now_, nul, parent_folder, data_type, name.str, hidden)
            ELSE IF data_type = COMMAND_TYPE
            THEN DecodeCommand(p, payload, chunks_remain, now_, nul, parent_folder, data_type, name.str, hidden)
            ELSE IF data_type = FLOAT_TYPE
            THEN DecodeFloat(p, payload, chunks_remain, now_, nul, parent_folder, data_type, name.str, hidden)
            ELSE IF data_type \in {STRING_TYPE, INFO_TYPE}
            THEN DecodeString(p, payload, chunks_remain, now_, nul, parent_folder, data_type, name.str, hidden)
            ELSE IF data_type = TEXT_SELECTION_TYPE
            THEN DecodeSelection(p, payload, chunks_remain, now_, nul, parent_folder, data_type, name.str, hidden)
            ELSE DecodeOther(p, payload, chunks_remain, now_, nul, parent_folder, data_type, name.str, hidden)

\* self.chunks[-chunks_remain - 1] = frame.payload
StoreChunkFromFront(chunks, chunks_remain, payload) ==
    [chunks EXCEPT ![chunks_remain + 1] = Some(payload)]

StoreChunk(chunks, chunks_remain, payload) ==
    [chunks EXCEPT ![Len(chunks) - chunks_remain] = Some(payload)]

\* what the terminal chunk does to a pending buffer found in violation

OnChunksError(p) == p

\* CRSFParam.process_frame
ParamProcessFrame(p, frame, now_) ==
    IF FrameType(frame) # MSG_TYPE_PARAM_ENTRY THEN Ret(p, "")
    ELSE LET payload == FramePayload(frame)
         IN IF Len(PySlice(payload, 0, 2)) # 2 THEN Ret(p, "ValueError")
            ELSE LET chunks_remain == payload[2]
                 IN IF chunks_remain # 0
                    THEN LET c1 == IF p.chunks = <<>> THEN NoneSlots(chunks_remain + 1)
                                                      ELSE p.chunks
                         IN IF chunks_remain + 1 > Len(c1)
                            THEN Ret([p EXCEPT !.chunks = c1], "IndexError")
                            ELSE Ret([p EXCEPT !.chunks = StoreChunk(c1, chunks_remain, payload)], "")
                    ELSE IF p.chunks # <<>>
                    THEN LET c1 == StoreChunk(p.chunks, 0, payload)
                             p1 == [p EXCEPT !.chunks = c1]
                         IN IF ChunksComplete(c1, p.num)
                            THEN DecodeEntry([p1 EXCEPT !.chunks = <<>>], Reassemble(c1),
                                             chunks_remain, now_)
                            ELSE Ret(OnChunksError(p1), "")
                    ELSE DecodeEntry(p, payload, chunks_remain, now_)

\* CRSFParam.create_param_read_frame; <<>> when it returns None
create_param_read_frame(dest, param_num, chunk) ==
    create_frame(<<MSG_TYPE_PARAM_READ, dest, ORIGIN_ADDR, param_num, chunk>>)

\* a request that always names chunk 0
ReadFrameFromStart(p, origin) ==
    IF p.chunks # <<>> /\ ~Contains(p.chunks, None) THEN <<>>
    ELSE create_param_read_frame(origin, p.num, 0)

ParamReadFrame(p, origin) ==
    IF p.chunks # <<>>
    THEN IF Contains(p.chunks, None)
         THEN create_param_read_frame(origin, p.num, Index(p.chunks, None))
         ELSE <<>>
    ELSE create_param_read_frame(origin, p.num, 0)

(***************************************************************************)
(* CRSFDevice; time is counted in tenths of a second                       *)
(***************************************************************************)
POLL_PERIOD_S == 20
POLL_SPEED_UP == 19            \* POLL_PERIOD_S * POLL_RESPONSE_SPEED_UP_FACTOR
FOLDER_PERIOD_S == 100
PARAM_TIMEOUT_S == 1200

\* CRSFDevice.__init__ from a DEVICE_INFO frame
NewDevice(origin, param_count) ==
    [origin |-> origin,
     param_count |-> param_count,
     last_read_time |-> 0,
     last_read_frame |-> 0,
     menu |-> [n \in 0..param_count |-> None]]

InMenu(dev, n) == 0 <= n /\ n <= dev.param_count

\* what a call of poll_params leaves: the device, the parameter whose
\* create_param_read_frame was called (NoneVal if none was), the frame
\* written to the connection (<<>> if none was) and the exception raised
Polled(dev, selected, frame, exc) ==
    [dev |-> dev, selected |-> selected, frame |-> frame, exc |-> exc]

\* a scheduler that starts every parameter afresh PARAM_TIMEOUT_S after its
\* creation, obtained or not
RecreatedObtained(m, now_) ==
    m = None \/ now_ - m[1].created_time > PARAM_TIMEOUT_S

\* poll_params: "Create or recreate parameter to start obtaining it from
\* beginning", for the slot m of a child
Recreated(m, now_) ==
    m = None \/ (m[1].obtained_time = 0
                 /\ now_ - m[1].created_time > PARAM_TIMEOUT_S)

\* the "for child in children" loop and the statement after it
RECURSIVE ChildLoop(_, _, _, _, _, _)
ChildLoop(dev, children, i, oldest_time, oldest_child, now_) ==
    IF i > Len(children)
    THEN IF oldest_child # NoneVal
         THEN Polled(dev, oldest_child,
                     ParamReadFrame(dev.menu[oldest_child][1], dev.origin), "")
         ELSE Polled(dev, NoneVal, <<>>, "")
    ELSE LET child == children[i]
         IN IF ~InMenu(dev, child) THEN Polled(dev, NoneVal, <<>>, "IndexError")
            ELSE LET m == dev.menu[child]
                 IN IF Recreated(m, now_)
                    THEN LET fresh == NewParam(child, now_)
                         IN Polled([dev EXCEPT !.menu[child] = Some(fresh)], child,
                                   ParamReadFrame(fresh, dev.origin), "")
                    ELSE IF Contains(m[1].chunks, None)
                    THEN Polled(dev, child, ParamReadFrame(m[1], dev.origin), "")
                    ELSE IF oldest_time = NoneVal \/ now_ - m[1].obtained_time > oldest_time
                    THEN ChildLoop(dev, children, i + 1,
                                   now_ - m[1].obtained_time, child, now_)
                    ELSE ChildLoop(dev, children, i + 1, oldest_time, oldest_child, now_)

\* "if frame:" and what follows
Written(r) ==
    IF r.frame # <<>>
    THEN [r EXCEPT !.dev.last_read_frame = FramePayload(r.frame)[1]]
    ELSE r

\* a rate limit that ends a tenth of a second early
RateLimitedShort(dev, now_) == now_ - dev.last_read_time < POLL_PERIOD_S - 1

\* poll_params: "if time.time() - self.last_read_time < self.POLL_PERIOD_S"
RateLimited(dev, now_) == now_ - dev.last_read_time < POLL_PERIOD_S

\* a folder that is read again a tenth of a second late
FolderDueLate(f, now_) ==
    f.obtained_time = 0 \/ now_ - f.obtained_time > FOLDER_PERIOD_S + 1

\* poll_params: "Load the current folder itself"
FolderDue(f, now_) ==
    f.obtained_time = 0 \/ now_ - f.obtained_time > FOLDER_PERIOD_S

\* CRSFDevice.poll_params
PollParams(dev, folder, now_) ==
    IF ~InMenu(dev, folder) THEN Polled(dev, NoneVal, <<>>, "")
    ELSE IF RateLimited(dev, now_) THEN Polled(dev, NoneVal, <<>>, "")
    ELSE LET d1 == [dev EXCEPT !.last_read_time = now_]
             m == d1.menu[folder]
         IN IF m # None /\ m[1].obtained_time # 0 /\ ~is_folder(m[1])
            THEN Polled(d1, NoneVal, <<>>, "InvalidType")
            ELSE LET d2 == IF m = None
                           THEN [d1 EXCEPT !.menu[folder] = Some(NewParam(folder, now_))]
                           ELSE d1
                     f == d2.menu[folder][1]
                 IN IF FolderDue(f, now_)
                    THEN Written(Polled(d2, folder, ParamReadFrame(f, d2.origin), ""))
                    ELSE Written(ChildLoop(d2, f.children[1], 1, NoneVal, NoneVal, now_))

\* a speed-up for every PARAM_ENTRY, whatever parameter it is about
SpedUpAlways(dev, param_num) == [dev EXCEPT !.last_read_time = @ - POLL_SPEED_UP]

\* process_frame: "if self.last_read_frame == param_num"
SpedUp(dev, param_num) ==
    IF dev.last_read_frame = param_num
    THEN [dev EXCEPT !.last_read_time = @ - POLL_SPEED_UP]
    ELSE dev

\* CRSFDevice.process_frame
DeviceProcessFrame(dev, frame, now_) ==
    IF FrameType(frame) # MSG_TYPE_PARAM_ENTRY THEN [dev |-> dev, exc |-> ""]
    ELSE IF Len(FramePayload(frame)) = 0 THEN [dev |-> dev, exc |-> "IndexError"]
    ELSE LET param_num == FramePayload(frame)[1]
             d1 == SpedUp(dev, param_num)
         IN IF InMenu(d1, param_num) /\ d1.menu[param_num] # None
            THEN LET r == ParamProcessFrame(d1.menu[param_num][1], frame, now_)
                 IN [dev |-> [d1 EXCEPT !.menu[param_num] = Some(r.p)], exc |-> r.exc]
            ELSE [dev |-> d1, exc |-> ""]

(***************************************************************************)
(* Parameter entries of the remote device and their chunking               *)
(***************************************************************************)
\* entry bodies: parent folder, type | hidden, name, NUL, type-specific part
FolderEntry == <<0, FOLDER_TYPE, 82, 0, 1, 255>>
FloatEntry ==
    <<0, FLOAT_TYPE, 195, 169, 0,  0, 0, 1, 58,  0, 0, 0, 0,  0, 0, 3, 232,
      255, 255, 255, 255,  2,  0, 0, 0, 1,  86, 0>>
CommandEntry == <<0, 128 + COMMAND_TYPE, 67, 0, 1, 25, 103, 111, 0>>
StringEntry == <<0, STRING_TYPE, 83, 0, 104, 105, 0, 8>>
InfoEntry == <<0, INFO_TYPE, 73, 0, 118, 49, 0>>
SelectionEntry == <<0, TEXT_SELECTION_TYPE, 77, 0, 97, 59, 98, 0, 1, 0, 1, 0, 0>>
Uint8Entry == <<0, 0, 85, 0, 5, 0, 10, 1, 0>>
NoNulEntry == <<0, FOLDER_TYPE, 82, 82>>
BadUtf8Entry == <<0, INFO_TYPE, 255, 0, 118, 0>>

GoodEntries ==
    {FolderEntry, FloatEntry, CommandEntry, StringEntry, InfoEntry,
     SelectionEntry, Uint8Entry}
Entries == GoodEntries \cup {NoNulEntry, BadUtf8Entry}

\* a PARAM_ENTRY frame from the remote device
EntryFrame(num, chunks_remain, piece) ==
    create_frame(<<MSG_TYPE_PARAM_ENTRY, ORIGIN_ADDR, TX_ADDR, num, chunks_remain>> \o piece)

\* the body cut at the positions cuts (nondecreasing, within the body)
RECURSIVE Pieces(_, _, _)
Pieces(body, cuts, from) ==
    IF Len(cuts) = 0 THEN <<PyFrom(body, from)>>
    ELSE <<PySlice(body, from, Head(cuts))>> \o Pieces(body, Tail(cuts), Head(cuts))

ChunkFrames(num, body, cuts) ==
    LET ps == Pieces(body, cuts, 0)
    IN [i \in 1..Len(ps) |-> EntryFrame(num, Len(ps) - i, ps[i])]

(***************************************************************************)
(* State                                                                   *)
(***************************************************************************)
VARIABLES
    data,      \* crsf_parser.data, the parser's buffer
    out,       \* every frame yielded by digest so far, in order
    todo,      \* bytes on the wire not yet handed to digest
    scen,      \* what was put on the wire
    conn,      \* the connection object and the loop that reads from it
    param,     \* a CRSFParam object that is handed frames directly
    before,    \* that object when the first frame was handed to it
    prev,      \* that object before the last frame handed to it
    hist,      \* which frames of the remote device it was handed, in order
    device,    \* a CRSFDevice object
    lastPoll,  \* what the last call of poll_params did
    received,  \* how many frames the device was handed
    remote,    \* the frames the remote device can send
    now,       \* time.time()
    raised,    \* the exception that escaped the last call, "" if none
    menu       \* the CRSFMenu object and the position of its run() loop

parserVars == <<data, out, todo, scen, conn>>
paramVars == <<param, before, prev, hist>>
deviceVars == <<device, lastPoll, received>>
vars == <<data, out, todo, scen, conn, param, before, prev, hist, device, lastPoll,
          received, remote, now, raised, menu>>

NoParser == data = <<>> /\ out = <<>> /\ todo = <<>> /\ scen = None /\ conn = None
NoParam == param = None /\ before = None /\ prev = None /\ hist = <<>>
NoDevice == device = None /\ lastPoll = None /\ received = 0
NoMenu == menu = None

(***************************************************************************)
(* What is put on the wire                                                 *)
(***************************************************************************)
RawBytes == {0, 1, 2, SYNC, 213}
BodyBytes == {0, SYNC}
NoiseBytes == {0, 5, SYNC}

\* bodies handed to create_frame, of lo to hi bytes
Bodies(lo, hi) == BSeq(BodyBytes, lo, hi)

RECURSIVE Wire(_)
Wire(frames) ==
    IF Len(frames) = 0 THEN <<>>
    ELSE Head(frames) \o Wire(Tail(frames))

RECURSIVE Frames(_)
Frames(bodies) ==
    IF Len(bodies) = 0 THEN <<>>
    ELSE <<create_frame(Head(bodies))>> \o Frames(Tail(bodies))

\* a byte with bit number bit (0..7) flipped
FlipBit(byte, bit) == BitXor(byte, Pow2(bit))

\* a frame with one bit of its CRC byte flipped
FlipCrc(f, bit) == [f EXCEPT ![Len(f)] = FlipBit(f[Len(f)], bit)]

Ping7 == <<200, 4, 40, 0, 234, 200, 84>>
Ping6 == <<200, 4, 40, 0, 234, 84>>

\* a scenario: the bodies framed, the frames made of them, the bytes that
\* precede them, and all the bytes on the wire
Scen(kind, bodies, frames, noise, wire) ==
    [kind |-> kind, bodies |-> bodies, frames |-> frames, noise |-> noise,
     wire |-> wire]

\* arbitrary bytes, and the two PING traces
RawScenarios(n) ==
    {Scen("raw", <<>>, <<>>, w, w) : w \in BSeq(RawBytes, 0, n)}
    \cup {Scen("ping7", <<>>, <<>>, <<>>, Ping7), Scen("ping6", <<>>, <<>>, <<>>, Ping6)}

FramesScen(bodies) ==
    LET fs == Frames(bodies)
    IN Scen("frames", bodies, fs, <<>>, Wire(fs))

FrameScenarios(n) ==
    {FramesScen(bs) : bs \in BSeq(Bodies(0, MaxBody), 0, n)}

NoiseScen(body, noise) ==
    LET f == create_frame(body)
    IN Scen("noise", <<body>>, <<f>>, noise, noise \o f)

NoiseScenarios(n) ==
    {NoiseScen(b, w) : b \in Bodies(1, MaxBody), w \in BSeq(NoiseBytes, 0, n)}

\* frames[1] is the corrupted frame
FlipScen(b1, b2, bit) ==
    LET f1 == FlipCrc(create_frame(b1), bit)
        f2 == create_frame(b2)
    IN Scen("flip", <<b1, b2>>, <<f1, f2>>, <<>>, f1 \o f2)

FlipScenarios(n) ==
    {FlipScen(b1, b2, bit) : b1 \in Bodies(1, n), b2 \in Bodies(1, 1), bit \in 0..7}

(***************************************************************************)
(* The stream: a fresh parser, and the wire cut at arbitrary positions     *)
(***************************************************************************)
InitStream(scenarios) ==
    /\ scen \in scenarios
    /\ todo = scen.wire
    /\ data = <<>>
    /\ out = <<>>
    /\ conn = None
    /\ NoParam /\ NoDevice /\ NoMenu
    /\ remote = None /\ now = 0 /\ raised = ""

\* arbitrary bytes, and the PING traces
Init == InitStream(RawScenarios(MaxFed))
\* frames built by create_frame
InitFrames == InitStream(FrameScenarios(MaxFrames))
\* noise, then a frame
InitNoise == InitStream(NoiseScenarios(MaxNoise))
\* a frame with a bit of its CRC flipped, then a frame
InitFlip == InitStream(FlipScenarios(MaxBody))

\* one call of digest with the next n bytes of the wire
Digest(n) ==
    /\ n \in 1..Len(todo)
    /\ LET r == ParserDigest(data, SubSeq(todo, 1, n))
       IN /\ data' = r.data
          /\ out' = out \o r.frames
    /\ todo' = DropFirst(todo, n)
    /\ UNCHANGED <<scen, conn, paramVars, deviceVars, remote, now, raised, menu>>

MaxWire == MaxFed + MaxFrames * (MaxBody + 3) + MaxNoise + 7

Next == \E n \in 1..MaxWire : Digest(n)

Spec == Init /\ [][Next]_vars
SpecFrames == InitFrames /\ [][Next]_vars
SpecNoise == InitNoise /\ [][Next]_vars
SpecFlip == InitFlip /\ [][Next]_vars

\* the longest frame header there is, SYNC and LEN = 255, and after it all
\* the bytes of the frame but the last, each of them b
MaxFill == 3           \* longest raw byte string fed beside the long frames
LongFrame(b) == <<SYNC, 255>> \o [i \in 1..254 |-> b]

LongScenarios == {Scen("long", <<>>, <<>>, <<>>, LongFrame(b)) : b \in {0, SYNC}}

\* arbitrary bytes, and the long frames
InitFill == InitStream(RawScenarios(MaxFill) \cup LongScenarios)

SpecFill == InitFill /\ [][Next]_vars

(***************************************************************************)
(* One parameter: a CRSFParam handed PARAM_ENTRY frames in any order       *)
(***************************************************************************)
ParamNum == 1          \* the number of the parameter
OtherNum == 2          \* the number of another parameter of the device
StartTime == 2000      \* time.time() at construction

CutPoints == {1, 3}
Cuts ==
    {c \in BSeq(CutPoints, 1, MaxChunks - 1) :
        \A i \in 1..(Len(c) - 1) : c[i] <= c[i + 1]}

\* the frames of one entry: its chunks in order, its first chunk under
\* another parameter's number, and the entry in a single frame
RemoteOf(body, cuts) ==
    LET chunks == ChunkFrames(ParamNum, body, cuts)
    IN [body |-> body,
        k |-> Len(chunks),
        frames |-> chunks \o <<EntryFrame(OtherNum, Len(chunks) - 1,
                                           Pieces(body, cuts, 0)[1]),
                                EntryFrame(ParamNum, 0, body)>>]

ParamScenarios == {RemoteOf(body, cuts) : body \in Entries, cuts \in Cuts}

\* a parameter never obtained, and one obtained earlier as a string
FreshParam == NewParam(ParamNum, StartTime)
ObtainedParam ==
    ParamProcessFrame(FreshParam, EntryFrame(ParamNum, 0, StringEntry), StartTime).p

InitParam ==
    /\ remote \in ParamScenarios
    /\ before \in {FreshParam, ObtainedParam}
    /\ before = ObtainedParam => remote.body \in {FloatEntry, NoNulEntry}
    /\ param = before
    /\ prev = before
    /\ hist = <<>>
    /\ now = StartTime + 1
    /\ raised = ""
    /\ NoParser /\ NoDevice /\ NoMenu

\* param.process_frame(remote.frames[i])
Deliver(i) ==
    /\ i \in 1..Len(remote.frames)
    /\ Len(hist) < MaxDeliver
    /\ LET r == ParamProcessFrame(param, remote.frames[i], now)
       IN /\ param' = r.p
          /\ raised' = r.exc
    /\ prev' = param
    /\ hist' = Append(hist, i)
    /\ now' = now + 1
    /\ UNCHANGED <<parserVars, deviceVars, before, remote, menu>>

NextParam == \E i \in 1..(MaxChunks + 2) : Deliver(i)

SpecParam == InitParam /\ [][NextParam]_vars

(***************************************************************************)
(* One device: a CRSFDevice polled for its root folder while the remote    *)
(* device sends PARAM_ENTRY frames in any order                            *)
(***************************************************************************)
ParamCount == 1        \* param_count of the DEVICE_INFO frame
RootFolder == 0        \* the folder the menu is in

\* the root folder's entry in one frame, then the chunks of parameter 1
DeviceRemoteOf(body, cuts) ==
    [body |-> body,
     k |-> Len(cuts) + 1,
     frames |-> <<EntryFrame(RootFolder, 0, FolderEntry)>>
                \o ChunkFrames(ParamNum, body, cuts)]

DeviceScenarios ==
    {DeviceRemoteOf(FloatEntry, <<1, 3>>), DeviceRemoteOf(StringEntry, <<3>>)}

\* the folders the menu is in when it polls
Folders == {RootFolder}

NoPoll == [selected |-> NoneVal, frame |-> <<>>]

InitDevice ==
    /\ remote \in DeviceScenarios
    /\ device = NewDevice(TX_ADDR, ParamCount)
    /\ lastPoll = NoPoll
    /\ received = 0
    /\ now = StartTime
    /\ raised = ""
    /\ NoParser /\ NoParam /\ NoMenu

\* device.poll_params(conn, folder)
Poll(folder) ==
    /\ LET r == PollParams(device, folder, now)
       IN /\ device' = r.dev
          /\ lastPoll' = [selected |-> r.selected, frame |-> r.frame]
          /\ raised' = r.exc
    /\ UNCHANGED <<parserVars, paramVars, received, remote, now, menu>>

\* device.process_frame(remote.frames[i])
Receive(i) ==
    /\ i \in 1..Len(remote.frames)
    /\ received < MaxReceive
    /\ LET r == DeviceProcessFrame(device, remote.frames[i], now)
       IN /\ device' = r.dev
          /\ raised' = r.exc
    /\ received' = received + 1
    /\ UNCHANGED <<parserVars, paramVars, lastPoll, remote, now, menu>>

\* a poll period passes
Tick ==
    /\ now < StartTime + MaxTicks * POLL_PERIOD_S
    /\ now' = now + POLL_PERIOD_S
    /\ UNCHANGED <<parserVars, paramVars, deviceVars, remote, raised, menu>>

NextDevice ==
    \/ \E folder \in Folders : Poll(folder)
    \/ \E i \in 1..(MaxChunks + 1) : Receive(i)
    \/ Tick

SpecDevice == InitDevice /\ [][NextDevice]_vars

(***************************************************************************)
(* DEVICE_INFO and PARAM_WRITE frames, the float dialogue                  *)
(***************************************************************************)
MSG_TYPE_LINK_STATS == 20
MSG_TYPE_DEVICE_INFO == 41
MSG_TYPE_PARAM_WRITE == 45
RX_ADDR == 236

\* crsf_frame.parse of a DEVICE_INFO frame: the tuple it returns
\* (device_name, sn, hw_id, sw_id, param_count, version) or the exception
\* it raises
FrameParse(f) ==
    LET payload == FramePayload(f)
        delim == Index(payload, 0)
        tail == PyFrom(payload, delim + 1)
        device_name == Utf8Decode(PySlice(payload, 0, delim))
        word(i) == Wide(tail[i + 1] * 256 + tail[i + 2], tail[i + 3] * 256 + tail[i + 4])
    IN IF delim = NoneVal THEN [exc |-> "ValueError", info |-> <<>>]
       ELSE IF ~device_name.ok THEN [exc |-> "UnicodeDecodeError", info |-> <<>>]
       ELSE IF Len(tail) < 14 THEN [exc |-> "IndexError", info |-> <<>>]
       ELSE [exc |-> "",
             info |-> <<device_name.str, word(0), word(4), word(8), tail[13], tail[14]>>]

\* a reply that is addressed to the frame's destination instead of its origin
DeviceInfoToBroadcast(dest, orig) ==
    create_frame(<<MSG_TYPE_DEVICE_INFO, BROADCAST_ADDR, orig,
                   65, 103, 101, 110, 116, 32, 80, 121, 116, 104, 111, 110, 0,
                   18, 52, 86, 120,  1, 35, 69, 2,  0, 0, 17, 17,  0,  1>>)

\* create_device_info_frame: the name is "Agent Python"
create_device_info_frame(dest, orig) ==
    create_frame(<<MSG_TYPE_DEVICE_INFO, dest, orig,
                   65, 103, 101, 110, 116, 32, 80, 121, 116, 104, 111, 110, 0,
                   18, 52, 86, 120,  1, 35, 69, 2,  0, 0, 17, 17,  0,  1>>)

create_param_write_frame(dest, param_num, value) ==
    create_frame(<<MSG_TYPE_PARAM_WRITE, dest, ORIGIN_ADDR, param_num>> \o value)

\* CRSF.encode_int32: (val >> 24) & 0xFF, ..., val & 0xFF
encode_int32(val) ==
    <<(val \div 16777216) % 256, (val \div 65536) % 256, (val \div 256) % 256, val % 256>>

Pow10[n \in Nat] == IF n = 0 THEN 1 ELSE 10 * Pow10[n - 1]

\* CRSFParam.get_float_decimal: eval('0.' + '0' * decimal_point + '1') if
\* decimal_point else 1, as the d with get_float_decimal() = 1 / d
get_float_decimal(p) ==
    IF p.decimal_point[1] # 0 THEN Pow10[p.decimal_point[1] + 1] ELSE 1

\* float(str) for a string of the characters 0..9, '.' and '-': <<m, d>> for
\* the number m / d, None for a ValueError
PyFloat(str) ==
    LET RECURSIVE From(_, _, _, _)
        \* m: the digits read so far; d: 0 before the point, then 10^(digits
        \* after it); seen: a digit was read
        From(i, m, d, seen) ==
            IF i > Len(str)
            THEN IF seen THEN Some(<<m, IF d = 0 THEN 1 ELSE d>>) ELSE None
            ELSE IF str[i] = 46
            THEN IF d # 0 THEN None ELSE From(i + 1, m, 1, seen)
            ELSE IF str[i] \in 48..57
            THEN From(i + 1, m * 10 + (str[i] - 48), d * 10, TRUE)
            ELSE None
        r == From(2, 0, 0, FALSE)
    IN IF str # <<>> /\ str[1] = 45
       THEN IF r = None THEN None ELSE Some(<<-r[1][1], r[1][2]>>)
       ELSE From(1, 0, 0, FALSE)

\* CRSFParam.encode_float: int(round(val / self.get_float_decimal())), None
\* when it is below self.min or above self.max
encode_float(p, val) ==
    LET n == val[1] * get_float_decimal(p)
        den == val[2]
        q == n \div den
        r == n % den
        rounded == IF 2 * r < den THEN q
                   ELSE IF 2 * r > den THEN q + 1
                   ELSE IF q % 2 = 0 THEN q ELSE q + 1
        w == Wide(rounded \div 65536, rounded % 65536)
        Less(a, b) == a[1] < b[1] \/ (a[1] = b[1] /\ a[2] < b[2])
    IN IF Less(w, p.min[1]) \/ Less(p.max[1], w) THEN None ELSE Some(rounded)

\* str(n) for an integer n >= 0
Digits[n \in Nat] ==
    IF n < 10 THEN <<48 + n>> ELSE Append(Digits[n \div 10], 48 + (n % 10))

\* str(self.render_float()) for a value in 0 .. 65535: the integer itself
\* when get_float_decimal() is 1, else the decimal fraction value / d
\* without trailing zeros
RenderFloat(p) ==
    LET RECURSIVE Frac(_, _)
        Frac(n, d) == IF n = 0 THEN <<>>
                      ELSE <<48 + ((n * 10) \div d)>> \o Frac((n * 10) % d, d)
        v == p.value[1][2]
        d == get_float_decimal(p)
    IN IF d = 1 THEN Digits[v]
       ELSE Digits[v \div d] \o <<46>>
            \o (IF v % d = 0 THEN <<48>> ELSE Frac(v % d, d))

(***************************************************************************)
(* CRSFMenu: the registry of devices, the keyboard and the screen          *)
(* (time in tenths of a second)                                            *)
(***************************************************************************)
PING_PERIOD_S == 50
IDLE_TIMEOUT_S == 600
MENU_COMMAND_READY == 0
MENU_COMMAND_START == 1
MENU_COMMAND_CONFIRMATION_NEEDED == 3
MENU_COMMAND_CONFIRM == 4
MENU_COMMAND_CANCEL == 5
QUIT_KEY == 113
UP_KEY == 65
DOWN_KEY == 66
ENTER_KEY == 10
BACKSPACE_KEY == 127

\* CRSFMenu.__init__ and the start of run(). CRSFDevice and CRSFParam objects
\* are referred to from several places, so the CRSFDevice objects live in
\* heap and are named by their index (0 for None); a CRSFParam object is
\* named by [oid, num, created_time]: the device, the slot of its menu and
\* the object's created_time. The fields that are only drawn (last_key,
\* last_frame, last_sent, debug_txt, dialog_start_pos) are left out.
\*   pc     where run() is: "frames", "key", "show", "sleep", "quit", "dead"
\*   sent   the frames written by the last step
\*   keys   the keys the user is still going to press
\*   frame  run()'s frame: the frame the last step read (its place in the
\*          session's frames), 0 if it read none
\*   reads  how many frames read_crsf has returned
\*   round  the round of the "while True" loop run() is in
\*   done   how many frames read_crsf has returned in this round
NewMenu(addrs, keys) ==
    [heap |-> <<>>,
     devices |-> [a \in addrs |-> 0],
     menu_pos |-> 0,
     menu_pos_stack |-> <<>>,
     displayed_devices |-> <<>>,
     menu_device |-> 0,
     menu_folder |-> 0,
     displayed_params |-> <<>>,
     dialog_param |-> None,
     dialog_pos |-> 0,
     dialog_val |-> <<>>,
     last_ping |-> 0,
     pc |-> "frames",
     sent |-> <<>>,
     keys |-> keys,
     reads |-> 0,
     frame |-> 0,
     round |-> 1,
     done |-> 0]

\* what a step of run() leaves: the menu and the exception that escaped
Ran(m, exc) == [m |-> m, exc |-> exc]

\* the CRSFParam object a reference names: the one in the slot, or one that
\* was replaced there before it was ever obtained (so it has no type)
ParamAt(m, ref) ==
    LET slot == m.heap[ref.oid].dev.menu[ref.num]
    IN IF slot # None /\ slot[1].created_time = ref.created_time
       THEN slot[1]
       ELSE NewParam(ref.num, ref.created_time)

\* a registry that takes every frame to come from its first device
RegisteredFirst(m, origin) ==
    IF \E a \in DOMAIN m.devices : m.devices[a] # 0
    THEN m.devices[CHOOSE a \in DOMAIN m.devices : m.devices[a] # 0]
    ELSE 0

\* self.devices[frame.origin] where frame.origin in self.devices: the object
\* registered under the address, 0 for none
Registered(m, origin) ==
    IF origin \in DOMAIN m.devices THEN m.devices[origin] ELSE 0

\* a device that is taken for the sender of every DEVICE_INFO frame from its
\* address
MatchOriginOnly(d, origin, info) == d.dev.origin = origin

\* CRSFDevice.match: the frame comes from the device's address and carries
\* its name, serial number, hardware id, firmware id, parameter count and
\* parameter version
match(d, origin, info) == d.dev.origin = origin /\ info = d.ident

\* run(): "Process an incoming frame"
MenuDispatch(m, frame, now_) ==
    LET type == FrameType(frame)
        origin == FrameOrigin(frame)
        oid == Registered(m, origin)
    IN IF type = MSG_TYPE_PING
       THEN Ran([m EXCEPT !.sent = <<create_device_info_frame(origin, ORIGIN_ADDR)>>], "")
       ELSE IF type = MSG_TYPE_DEVICE_INFO
       THEN LET parsed == FrameParse(frame)
            IN IF parsed.exc # "" THEN Ran(m, parsed.exc)
               ELSE IF oid # 0 /\ match(m.heap[oid], origin, parsed.info)
               THEN Ran([m EXCEPT !.heap[oid].last_seen = now_], "")
               ELSE Ran([m EXCEPT
                            !.heap = Append(@, [ident |-> parsed.info,
                                                last_seen |-> now_,
                                                dev |-> NewDevice(origin, parsed.info[5])]),
                            !.devices[origin] = Len(m.heap) + 1], "")
       ELSE IF type = MSG_TYPE_PARAM_ENTRY /\ oid # 0
       THEN LET r == DeviceProcessFrame(m.heap[oid].dev, frame, now_)
            IN Ran([m EXCEPT !.heap[oid].dev = r.dev], r.exc)
       ELSE Ran(m, "")

\* CRSFParam.is_input: a command, a string, a number or a selection
is_input(p) ==
    /\ p.type # None
    /\ p.type[1] \in (0..5) \cup {FLOAT_TYPE, COMMAND_TYPE, STRING_TYPE, TEXT_SELECTION_TYPE}

\* run(): "Process keyboard input" for a key that was pressed, and the write
\* of the dialogue's value (the ENTER key with the dialogue open)
KeyPressed(m, key) ==
    LET dialog == IF m.dialog_param = None THEN None
                  ELSE Some(ParamAt(m, m.dialog_param[1]))
        typing == /\ dialog # None
                  /\ dialog[1].type \in {Some(STRING_TYPE), Some(FLOAT_TYPE)}
        focus == m.heap[m.menu_device].dev
        push == [m EXCEPT !.menu_pos_stack = Append(@, m.menu_pos), !.menu_pos = 0]
        shown == IF 0 <= m.menu_pos /\ m.menu_pos < Len(m.displayed_params)
                 THEN m.displayed_params[m.menu_pos + 1] ELSE None
        \* create_write_frame and write_crsf for the value val, None if it
        \* is None
        write(mm, val) ==
            IF val = None THEN mm
            ELSE [mm EXCEPT !.sent = <<create_param_write_frame(
                                          focus.origin, dialog[1].num, val[1])>>]
    IN IF key = QUIT_KEY
       THEN IF m.menu_device = 0 THEN Ran([m EXCEPT !.pc = "quit"], "")
            ELSE IF m.dialog_param # None THEN Ran([m EXCEPT !.dialog_param = None], "")
            ELSE IF m.menu_pos_stack = <<>> THEN Ran(m, "IndexError")
            ELSE LET m1 == [m EXCEPT
                               !.menu_pos = m.menu_pos_stack[Len(m.menu_pos_stack)],
                               !.menu_pos_stack = SubSeq(@, 1, Len(@) - 1)]
                 IN IF m1.menu_pos_stack = <<>>
                    THEN Ran([m1 EXCEPT !.menu_device = 0], "")
                    ELSE IF ~InMenu(focus, m.menu_folder) THEN Ran(m1, "IndexError")
                    ELSE IF focus.menu[m.menu_folder] = None
                    THEN Ran(m1, "AttributeError")
                    ELSE IF focus.menu[m.menu_folder][1].parent_folder = None
                    THEN Ran([m1 EXCEPT !.menu_folder = NoneVal], "")
                    ELSE Ran([m1 EXCEPT !.menu_folder =
                                 focus.menu[m.menu_folder][1].parent_folder[1]], "")
       ELSE IF key = UP_KEY
       THEN IF dialog # None THEN Ran([m EXCEPT !.dialog_pos = @ - 1], "")
            ELSE Ran([m EXCEPT !.menu_pos = @ - 1], "")
       ELSE IF key = DOWN_KEY
       THEN IF dialog # None THEN Ran([m EXCEPT !.dialog_pos = @ + 1], "")
            ELSE Ran([m EXCEPT !.menu_pos = @ + 1], "")
       ELSE IF key = BACKSPACE_KEY
       THEN IF typing THEN Ran([m EXCEPT !.dialog_val = <<>>], "") ELSE Ran(m, "")
       ELSE IF key # ENTER_KEY
       THEN IF typing THEN Ran([m EXCEPT !.dialog_val = Append(@, key)], "")
            ELSE Ran(m, "")
       ELSE IF m.menu_device = 0
       THEN \* Enter device menu
            IF 0 <= m.menu_pos /\ m.menu_pos < Len(m.displayed_devices)
            THEN Ran([push EXCEPT !.menu_device = m.displayed_devices[m.menu_pos + 1],
                                  !.menu_folder = 0], "")
            ELSE Ran(m, "")
       ELSE IF dialog = None
       THEN \* Navigate the device menu
            IF shown = None THEN Ran(m, "")
            ELSE LET p == ParamAt(m, shown[1])
                 IN IF p.type = Some(FOLDER_TYPE)
                    THEN Ran([push EXCEPT !.menu_folder = p.num], "")
                    ELSE IF ~is_input(p)
                    THEN Ran(m, "")
                    ELSE LET m1 == [m EXCEPT
                                       !.dialog_param = shown,
                                       !.dialog_pos = 0,
                                       !.dialog_val =
                                           IF p.type = Some(FLOAT_TYPE) THEN RenderFloat(p)
                                           ELSE IF p.type = Some(STRING_TYPE) THEN p.value[1]
                                           ELSE IF p.type = Some(TEXT_SELECTION_TYPE)
                                           THEN Digits[p.value[1]]
                                           ELSE <<78, 111, 110, 101>>]
                         IN IF p.type = Some(COMMAND_TYPE)
                            THEN Ran([m1 EXCEPT !.sent = <<create_param_write_frame(
                                         focus.origin, p.num, <<MENU_COMMAND_START>>)>>], "")
                            ELSE Ran(m1, "")
       ELSE \* Dialog window open
            LET p == dialog[1]
                quit_cancel == m.dialog_pos = 0
                confirm == p.status = Some(MENU_COMMAND_CONFIRMATION_NEEDED)
                ready == p.status = Some(MENU_COMMAND_READY)
                f == PyFloat(m.dialog_val)
                e == encode_float(p, f[1])
            IN IF p.type = Some(STRING_TYPE)
               THEN Ran(write(m, Some(Append(m.dialog_val, 0))), "")
               ELSE IF p.type = Some(FLOAT_TYPE)
               THEN IF f = None \/ e = None THEN Ran(m, "")
                    ELSE Ran(write(m, Some(encode_int32(e[1]))), "")
               ELSE IF p.type = Some(COMMAND_TYPE)
               THEN IF quit_cancel /\ (confirm \/ ready)
                    THEN Ran([m EXCEPT !.dialog_param = None], "")
                    ELSE IF ~quit_cancel /\ confirm
                    THEN Ran(write(m, Some(<<MENU_COMMAND_CONFIRM>>)), "")
                    ELSE IF quit_cancel
                    THEN Ran(write(m, Some(<<MENU_COMMAND_CANCEL>>)), "")
                    ELSE \* val is not assigned on this path
                         Ran(m, "UnboundLocalError")
               ELSE IF p.type = Some(TEXT_SELECTION_TYPE)
               THEN Ran(write(m, Some(<<m.dialog_pos>>)), "")
               ELSE Ran(m, "")

\* a device that is kept for as long as IDLE_TIMEOUT_S
IdleLate(d, now_) == now_ - d.last_seen > IDLE_TIMEOUT_S

\* draw_menu: the device was "not seen for a long time"
Idle(d, now_) == now_ - d.last_seen >= IDLE_TIMEOUT_S

\* a menu that keeps its device whatever the registry holds
StillListedKept(kept, menu_device) == menu_device

\* draw_menu: "Check if the current device is still in the list"
StillListed(kept, menu_device) ==
    IF \E a \in DOMAIN kept : kept[a] # 0 /\ kept[a] = menu_device
    THEN menu_device ELSE 0

\* display(): draw_menu with draw_device_list, draw_device_menu and
\* draw_dialogue, as far as they change the state
Display(m, now_) ==
    LET Clamp(pos, n) == IF pos >= n THEN 0 ELSE IF pos < 0 THEN n - 1 ELSE pos
        \* "Remove devices not seen for a long time", "Check if the current
        \* device is still in the list"
        Evicted(kept) ==
            [m EXCEPT !.devices = kept,
                      !.menu_device = StillListed(kept, @)]
        RECURSIVE Sorted(_, _)
        Sorted(devices, S) ==
            IF S = {} THEN <<>>
            ELSE LET a == CHOOSE x \in S : \A y \in S : x <= y
                 IN <<devices[a]>> \o Sorted(devices, S \ {a})
        draw_device_list(m1, online) ==
            IF online = {} THEN Ran([m1 EXCEPT !.displayed_devices = <<>>], "")
            ELSE Ran([m1 EXCEPT !.displayed_devices = Sorted(m1.devices, online),
                                !.menu_pos = Clamp(@, Cardinality(online))], "")
        draw_dialogue(m2, p, pos, confirm) ==
            IF p.type = Some(TEXT_SELECTION_TYPE)
            THEN Ran([m2 EXCEPT !.dialog_pos =
                         IF pos < 0 THEN Len(p.options) - 1
                         ELSE IF pos >= Len(p.options) THEN 0 ELSE pos], "")
            ELSE IF p.type = Some(COMMAND_TYPE)
            THEN Ran([m2 EXCEPT !.dialog_pos =
                         IF pos < 0 THEN (IF confirm THEN 1 ELSE 0)
                         ELSE IF pos > 1 \/ ~confirm THEN 0 ELSE pos], "")
            ELSE Ran(m2, "")
        Drawn(m2, p) ==
            IF m2.dialog_param = None THEN Ran(m2, "")
            ELSE draw_dialogue(m2, p, m2.dialog_pos,
                               p.status = Some(MENU_COMMAND_CONFIRMATION_NEEDED))
        Ref(oid, slot, child) ==
            IF slot = None THEN None
            ELSE Some([oid |-> oid, num |-> child, created_time |-> slot[1].created_time])
        Contents(m1, focus, children) ==
            IF \E i \in 1..Len(children) : ~InMenu(focus, children[i])
            THEN Ran(m1, "IndexError")
            ELSE Drawn([m1 EXCEPT
                           !.menu_pos = Clamp(@, Len(children)),
                           !.displayed_params =
                               [i \in 1..Len(children) |->
                                   Ref(m1.menu_device, focus.menu[children[i]], children[i])]],
                       ParamAt(m1, m1.dialog_param[1]))
        Folder(m1, focus, slot) ==
            IF slot = None \/ ~is_folder(slot[1]) THEN Ran(m1, "")
            ELSE Contents(m1, focus, slot[1].children[1])
        Checked(m1, focus, ok) ==
            Folder([m1 EXCEPT !.menu_folder = IF ok THEN @ ELSE 0], focus,
                   focus.menu[IF ok THEN m1.menu_folder ELSE 0])
        draw_device_menu(m1, focus, slot) ==
            IF focus.param_count = 0 THEN Ran(m1, "")
            ELSE IF m1.menu_folder = NoneVal THEN Ran(m1, "TypeError")
            ELSE Checked(m1, focus, /\ InMenu(focus, m1.menu_folder)
                                    /\ slot # None
                                    /\ is_folder(slot[1]))
        draw_menu(m1) ==
            IF m1.menu_device = 0
            THEN draw_device_list(m1, {a \in DOMAIN m1.devices : m1.devices[a] # 0})
            ELSE draw_device_menu(m1, m1.heap[m1.menu_device].dev,
                                  m1.heap[m1.menu_device].dev.menu[m1.menu_folder])
    IN draw_menu(Evicted([a \in DOMAIN m.devices |->
                            IF m.devices[a] # 0 /\ Idle(m.heap[m.devices[a]], now_)
                            THEN 0 ELSE m.devices[a]]))

\* a PING already when exactly PING_PERIOD_S has passed
PingDueAt(last_ping, now_) == now_ - last_ping >= PING_PERIOD_S

\* run(): "if time.time() - last_ping > PING_PERIOD_S"
PingDue(last_ping, now_) == now_ - last_ping > PING_PERIOD_S

\* a handler that leaves the device selected
CaughtKept(menu_device, exc) == menu_device

\* run(): "except CRSFDevice.InvalidType", self.menu_device = None
Caught(menu_device, exc) == IF exc = "InvalidType" THEN 0 ELSE menu_device

\* run(): "Update screen", "Regularly send out READ frames to selected
\* device" and "Regularly send out PING frame"
Shown(m, now_) ==
    LET Pinged(m1) ==
            IF PingDue(m1.last_ping, now_)
            THEN Ran([m1 EXCEPT !.last_ping = now_,
                                !.sent = Append(@, create_frame(
                                    <<MSG_TYPE_PING, BROADCAST_ADDR, ORIGIN_ADDR>>))], "")
            ELSE Ran(m1, "")
        Polled_(m1, oid, r) ==
            IF r.exc \notin {"", "InvalidType"}
            THEN Ran([m1 EXCEPT !.heap[oid].dev = r.dev], r.exc)
            ELSE Pinged([m1 EXCEPT
                            !.heap[oid].dev = r.dev,
                            !.menu_device = Caught(@, r.exc),
                            !.sent = IF r.frame = <<>> THEN @ ELSE Append(@, r.frame)])
        Displayed(d) ==
            IF d.exc # "" THEN d
            ELSE IF d.m.menu_device = 0 THEN Pinged(d.m)
            ELSE Polled_(d.m, d.m.menu_device,
                         PollParams(d.m.heap[d.m.menu_device].dev, d.m.menu_folder, now_))
    IN Displayed(Display(m, now_))

(***************************************************************************)
(* run(): the frames that arrive, the keys that are pressed, the time that *)
(* passes                                                                  *)
(***************************************************************************)
Addrs == {TX_ADDR, RX_ADDR}

\* a DEVICE_INFO frame: name, NUL, serial, hardware and firmware id, the
\* number of parameters and the version
InfoFrame(origin, name, param_count) ==
    create_frame(<<MSG_TYPE_DEVICE_INFO, ORIGIN_ADDR, origin>> \o name
                 \o <<0,  0, 0, 0, 7,  0, 0, 0, 1,  0, 0, 1, 0,  param_count, 0>>)

InfoTX == InfoFrame(TX_ADDR, <<84>>, 1)
InfoTX2 == InfoFrame(TX_ADDR, <<84>>, 2)
InfoRX == InfoFrame(RX_ADDR, <<82>>, 0)
InfoNoNul == create_frame(<<MSG_TYPE_DEVICE_INFO, ORIGIN_ADDR, TX_ADDR, 84, 84>>)
InfoShort == create_frame(<<MSG_TYPE_DEVICE_INFO, ORIGIN_ADDR, TX_ADDR, 84, 0, 1, 2, 3>>)
PingFrame == create_frame(<<MSG_TYPE_PING, BROADCAST_ADDR, REMOTE_ADDR>>)
LinkStats == create_frame(<<MSG_TYPE_LINK_STATS, 0, 0, 100>>)
EntryFromRX ==
    create_frame(<<MSG_TYPE_PARAM_ENTRY, ORIGIN_ADDR, RX_ADDR, 0, 0>> \o FolderEntry)
\* entries whose decoding fails: no value bytes after a selection's options, no
\* max_length byte after a string's value, no type byte
SelectionNoValues == <<0, TEXT_SELECTION_TYPE, 77, 0, 97, 59, 98, 0>>
StringNoMax == <<0, STRING_TYPE, 83, 0, 104, 105, 0>>
ShortEntry == <<0>>
BadEntries == {SelectionNoValues, StringNoMax, ShortEntry, NoNulEntry}
\* the float entry with min = 10 instead of 0
FloatMinEntry == [FloatEntry EXCEPT ![13] = 10]

\* what arrives and is typed in one run: the frames read_crsf can return, the
\* keys pressed (in this order), the time that can pass between two rounds of
\* run() and the time it runs for. With an empty plan the frames arrive in any
\* order, each any number of times, and a key is pressed in any round; a plan
\* says for each round which frames arrive and whether a key is pressed.
Session(frames, keys, dts, until, plan) ==
    [frames |-> frames, keys |-> keys, dts |-> dts, until |-> until, plan |-> plan]

Round(reads, press) == [reads |-> reads, press |-> press]

\* the user opens the device with the frames <<DEVICE_INFO, root folder, first
\* parameter>>, waits for the first parameter to be shown, opens it, clears
\* the dialogue's text, types the text and presses ENTER
Typing(frames, text) ==
    Session(frames,
            <<ENTER_KEY, ENTER_KEY, BACKSPACE_KEY>> \o text \o <<ENTER_KEY>>,
            {POLL_PERIOD_S}, (Len(text) + 8) * POLL_PERIOD_S,
            <<Round(<<1>>, FALSE), Round(<<>>, TRUE), Round(<<2>>, FALSE),
              Round(<<3>>, FALSE)>> \o [i \in 1..(Len(text) + 3) |-> Round(<<>>, TRUE)])

Sessions(elapsed) ==
    {Session(<<InfoTX, InfoTX2, InfoRX, PingFrame>>, <<>>, {0, 299, 300, 301}, elapsed, <<>>),
     Session(<<InfoTX, InfoNoNul, PingFrame, EntryFrame(0, 0, FolderEntry)>>, <<>>,
             {0, 300}, elapsed, <<>>),
     Session(<<InfoRX, InfoShort, PingFrame>>, <<>>, {0, 300}, elapsed, <<>>),
     Session(<<InfoTX, EntryFrame(0, 0, FolderEntry), EntryFrame(1, 0, FloatEntry),
               EntryFrame(2, 0, FloatEntry), EntryFromRX, LinkStats>>,
             <<ENTER_KEY>>, {0, POLL_PERIOD_S}, 3 * POLL_PERIOD_S, <<>>),
     Session(<<InfoTX, EntryFrame(0, 0, SelectionNoValues), EntryFrame(0, 0, StringNoMax),
               EntryFrame(0, 0, ShortEntry), EntryFrame(0, 0, NoNulEntry),
               EntryFrame(0, 0, SelectionEntry), PingFrame>>,
             <<ENTER_KEY>>, {0, 1}, 1, <<>>),
     Session(<<LinkStats>>, <<>>, {PING_PERIOD_S \div 2, PING_PERIOD_S \div 2 + 1},
             2 * PING_PERIOD_S + 10, <<>>),
     Session(<<InfoTX, InfoTX2>>, <<ENTER_KEY>>, {0, IDLE_TIMEOUT_S}, IDLE_TIMEOUT_S, <<>>),
     Session(<<InfoTX, EntryFrame(0, 1, <<0, STRING_TYPE>>),
               EntryFrame(0, 5, <<0, STRING_TYPE>>), PingFrame>>,
             <<ENTER_KEY>>, {0, 1}, 1, <<>>),
     Typing(<<InfoTX, EntryFrame(0, 0, FolderEntry), EntryFrame(1, 0, FloatEntry)>>,
            <<51, 46, 49, 52>>),
     Typing(<<InfoTX, EntryFrame(0, 0, FolderEntry), EntryFrame(1, 0, FloatEntry)>>,
            <<50, 48, 46, 48>>),
     Typing(<<InfoTX, EntryFrame(0, 0, FolderEntry), EntryFrame(1, 0, FloatMinEntry)>>,
            <<48, 46, 48, 53>>)}

InitMenu ==
    /\ remote \in Sessions(MaxElapsed)
    /\ menu = NewMenu(Addrs, remote.keys)
    /\ now = StartTime
    /\ raised = ""
    /\ NoParser /\ NoParam /\ NoDevice

\* one step of run(): the step's writes start empty, and an exception that
\* escapes ends run()
Step(r, pc) ==
    /\ menu' = IF r.exc # "" THEN [r.m EXCEPT !.pc = "dead"]
               ELSE IF r.m.pc = "quit" THEN r.m
               ELSE [r.m EXCEPT !.pc = pc]
    /\ raised' = r.exc
    /\ UNCHANGED <<parserVars, paramVars, deviceVars, remote>>

\* the frames that arrive and whether a key is pressed in this round, None
\* where the session leaves it open
Planned ==
    IF remote.plan = <<>> THEN None
    ELSE IF menu.round > Len(remote.plan) THEN Some(Round(<<>>, FALSE))
    ELSE Some(remote.plan[menu.round])

\* read_crsf returns remote.frames[i]; a LINK_STATS frame ends the reading
MenuRead(i) ==
    /\ menu.pc = "frames"
    /\ i \in 1..Len(remote.frames)
    /\ menu.reads < MaxRead
    /\ Planned # None =>
          /\ menu.done < Len(Planned[1].reads)
          /\ i = Planned[1].reads[menu.done + 1]
    /\ LET m == [menu EXCEPT !.sent = <<>>, !.frame = i, !.reads = @ + 1, !.done = @ + 1]
           frame == remote.frames[i]
       IN IF FrameType(frame) = MSG_TYPE_LINK_STATS THEN Step(Ran(m, ""), "key")
          ELSE Step(MenuDispatch(m, frame, now), "frames")
    /\ now' = now

\* read_crsf returns no frame; getkey returns the next key (press) or fails
MenuKey(press) ==
    /\ menu.pc \in {"frames", "key"}
    /\ press => menu.keys # <<>>
    /\ Planned # None =>
          /\ menu.done = Len(Planned[1].reads)
          /\ press = Planned[1].press
    /\ LET m == [menu EXCEPT !.sent = <<>>, !.frame = 0]
       IN IF press THEN Step(KeyPressed([m EXCEPT !.keys = Tail(@)], Head(m.keys)), "show")
          ELSE Step(Ran(m, ""), "show")
    /\ now' = now

MenuShow ==
    /\ menu.pc = "show"
    /\ Step(Shown([menu EXCEPT !.sent = <<>>, !.frame = 0], now), "sleep")
    /\ now' = now

\* time.sleep(0.01) and the time the round took
MenuSleep(dt) ==
    /\ menu.pc = "sleep"
    /\ dt \in remote.dts
    /\ now + dt <= StartTime + remote.until
    /\ Step(Ran([menu EXCEPT !.sent = <<>>, !.frame = 0, !.done = 0,
                             !.round = IF Planned = None THEN @ ELSE @ + 1], ""),
            "frames")
    /\ now' = now + dt

NextMenu ==
    \/ \E i \in DOMAIN remote.frames : MenuRead(i)
    \/ \E press \in BOOLEAN : MenuKey(press)
    \/ MenuShow
    \/ \E dt \in remote.dts : MenuSleep(dt)

SpecMenu == InitMenu /\ [][NextMenu]_vars

(***************************************************************************)
(* Reference CRC-8/DVB-S2: polynomial 0xD5, zero initial value, MSB first, *)
(* in its usual byte-wise form (no augmentation of the message)            *)
(***************************************************************************)
RefCrcShift[i \in 0..8, crc \in 0..255] ==
    IF i = 0 THEN crc
    ELSE RefCrcShift[i - 1, IF crc >= 128 THEN XorByte((2 * crc) % 256, 213)
                                          ELSE 2 * crc]

RefCrcFrom[i \in Nat, crc \in 0..255, bytes \in Seq(0..255)] ==
    IF i > Len(bytes) THEN crc
    ELSE RefCrcFrom[i + 1, RefCrcShift[8, XorByte(crc, bytes[i])], bytes]

RefCrc8(bytes) == RefCrcFrom[1, 0, bytes]

Last(s) == s[Len(s)]

(***************************************************************************)
(* C1..C6: stream parser, frame codec, CRC                                 *)
(***************************************************************************)
FrameWellFormed(f) ==
    /\ Len(f) >= 2
    /\ f[1] = SYNC
    /\ Len(f) = f[2] + 2
    /\ Last(f) = RefCrc8(SubSeq(f, 3, Len(f) - 1))

\* C1: whatever bytes were fed and however they were cut, every frame yielded
\* starts with SYNC, is LEN + 2 bytes long and ends with the CRC8 of its
\* bytes from offset 2 up to the last byte.
C1_YieldedFramesValid ==
    \A i \in 1..Len(out) : FrameWellFormed(out[i])

C1_Witness ==
    /\ scen.kind = "raw"
    /\ Len(out) >= 1
    /\ Len(out[1]) >= 4
    /\ todo = <<>>

\* C2: frames built by create_frame from arbitrary bodies (the empty body
\* included), concatenated and cut anywhere, come out exactly, in order.
C2_Original ==
    (scen.kind = "frames" /\ todo = <<>>) => out = scen.frames

\* C3 as stated: after arbitrary noise (possibly containing 0xC8) the valid
\* frame is yielded once all its bytes have been fed.
C3_Original ==
    (scen.kind = "noise" /\ todo = <<>>)
    => (Len(out) >= 1 /\ Last(out) = scen.frames[1])

\* C3, amended: if the bytes fed before a valid frame contain no 0xC8, the
\* parser yields that frame (and nothing else) once all its bytes are fed.
C3_NoiseThenFrame ==
    (scen.kind = "noise" /\ ~Contains(scen.noise, SYNC) /\ todo = <<>>)
    => (out = scen.frames /\ data = <<>>)

C3_Witness ==
    /\ scen.kind = "noise"
    /\ Len(scen.noise) >= 2
    /\ ~Contains(scen.noise, SYNC)
    /\ todo = <<>>
    /\ out = scen.frames

Corrupted(s) == s.frames[1]

\* C4 as stated: a frame with one bit of its CRC byte flipped, directly
\* followed by a valid frame: the corrupted frame is never yielded and the
\* valid one is yielded once all its bytes are fed.
C4_Original ==
    scen.kind = "flip"
    => /\ \A i \in 1..Len(out) : out[i] # Corrupted(scen)
       /\ todo = <<>> => (Len(out) >= 1 /\ Last(out) = scen.frames[2])

\* C4, amended: the corrupted frame is never yielded; and when none of its
\* bytes after the SYNC byte (LEN, body, flipped CRC) is 0xC8, the valid frame
\* that follows is yielded once all its bytes are fed.
C4_FlipThenFrame ==
    scen.kind = "flip"
    => /\ \A i \in 1..Len(out) : out[i] # Corrupted(scen)
       /\ (todo = <<>> /\ ~Contains(Tail(Corrupted(scen)), SYNC))
          => (out = <<scen.frames[2]>> /\ data = <<>>)

C4_Witness ==
    /\ scen.kind = "flip"
    /\ ~Contains(Tail(Corrupted(scen)), SYNC)
    /\ Len(scen.bodies[1]) = 2
    /\ todo = <<>>
    /\ out = <<scen.frames[2]>>

PingFrameSeen ==
    /\ Len(out) = 1
    /\ FrameType(out[1]) = MSG_TYPE_PING
    /\ FrameDestination(out[1]) = BROADCAST_ADDR
    /\ FrameOrigin(out[1]) = REMOTE_ADDR
    /\ IsExtended(out[1])

\* C5 as stated: the seven bytes C8 04 28 00 EA C8 54 yield exactly one
\* frame, of type 0x28, destination 0x00, origin 0xEA, extended.
C5_Original ==
    (scen.kind = "ping7" /\ todo = <<>>) => PingFrameSeen

\* C5, amended: the six bytes C8 04 28 00 EA 54 yield exactly one frame, of
\* type 0x28, destination 0x00, origin 0xEA, extended.
C5_PingScenario ==
    (scen.kind = "ping6" /\ todo = <<>>) => PingFrameSeen

C5_Witness ==
    /\ scen.kind = "ping6"
    /\ todo = <<>>
    /\ out = <<Ping6>>

\* C6: calc_crc8 is the MSB-first CRC8 with polynomial 0xD5 and zero initial
\* value (it agrees with the reference on the bytes on the wire, in the
\* buffer and in every frame yielded), its result is a byte, and
\* calc_crc8([0x28, 0x00, 0xEA]) = 0x54.
C6_Crc8 ==
    /\ calc_crc8(<<40, 0, 234>>) = 84
    /\ \A s \in {todo, data} \cup {SubSeq(out[i], 3, Len(out[i]) - 1) : i \in 1..Len(out)} :
          /\ calc_crc8(s) \in 0..255
          /\ calc_crc8(s) = RefCrc8(s)

C6_Witness ==
    /\ scen.kind = "ping6"
    /\ Len(todo) = 3
    /\ todo = <<0, 234, 84>>

(***************************************************************************)
(* C7 .. C10: chunked parameter entries                                    *)
(***************************************************************************)
\* the frames 1 .. k of the remote device, in order
RECURSIVE InOrder(_)
InOrder(k) == IF k = 0 THEN <<>> ELSE Append(InOrder(k - 1), k)

\* the entry of the remote device in one frame
SingleFrame == remote.frames[Len(remote.frames)]

\* what handing the entry in one frame at time t makes of the parameter
\* the frames were handed to
SingleDecode(t) == ParamProcessFrame(before, SingleFrame, t).p

\* the same kind, name, parent, hidden flag and kind-specific fields
SameEntry(p, q) ==
    /\ p.type = q.type
    /\ p.name = q.name
    /\ p.parent_folder = q.parent_folder
    /\ p.hidden = q.hidden
    /\ p.value = q.value
    /\ p.min = q.min /\ p.max = q.max /\ p.default = q.default
    /\ p.unit = q.unit
    /\ p.children = q.children
    /\ p.options = q.options
    /\ p.max_length = q.max_length
    /\ p.decimal_point = q.decimal_point /\ p.step_size = q.step_size
    /\ p.status = q.status /\ p.timeout = q.timeout /\ p.info = q.info

\* C7: once the k >= 2 chunks of an entry were handed to a parameter with
\* an empty chunk buffer in the order k-1 .. 0 of their chunks_remaining,
\* the parameter has the kind, name, parent, hidden flag and kind-specific
\* fields that the entry in one frame gives it, its chunk buffer is empty,
\* and, the entry being a well-formed one, its obtained_time is the time of
\* the last chunk, which is positive.
C7_ChunkedEqualsSingle ==
    hist = InOrder(remote.k) =>
        /\ SameEntry(param, SingleDecode(now - 1))
        /\ param.chunks = <<>>
        /\ remote.body \in GoodEntries =>
              param.obtained_time = now - 1 /\ param.obtained_time > 0

C7_Witness ==
    /\ remote.body = FloatEntry
    /\ remote.k = 3
    /\ hist = <<1, 2, 3>>
    /\ before = FreshParam
    /\ param.type = Some(FLOAT_TYPE)
    /\ param.value = Some(Wide(0, 314))
    /\ param.max = Some(Wide(0, 1000))
    /\ param.decimal_point = Some(2)
    /\ param.unit = Some(<<86>>)
    /\ param.obtained_time > 0
    /\ param.chunks = <<>>

\* the last frame handed to the parameter was a terminal chunk that found
\* the pending buffer in violation
TerminalViolation ==
    /\ Len(hist) > 0
    /\ LET payload == FramePayload(remote.frames[hist[Len(hist)]])
       IN /\ payload[2] = 0
          /\ prev.chunks # <<>>
          /\ ~ChunksComplete(StoreChunk(prev.chunks, 0, payload), prev.num)

\* C8: when the terminal chunk finds the pending buffer in violation, the
\* parameter's fields and obtained_time are as before and its chunk buffer
\* is empty afterwards.
C8_Original ==
    TerminalViolation =>
        /\ SameEntry(param, prev)
        /\ param.obtained_time = prev.obtained_time
        /\ param.chunks = <<>>

\* C9: a poll that selects a parameter (calls its create_param_read_frame)
\* writes a PARAM_READ frame for that parameter.
C9_Original ==
    lastPoll.selected # NoneVal =>
        /\ lastPoll.frame # <<>>
        /\ FrameType(lastPoll.frame) = MSG_TYPE_PARAM_READ
        /\ FramePayload(lastPoll.frame)[1] = lastPoll.selected

\* C10: for an entry of two chunks, after the chunk with chunks_remaining = 1
\* was handed to the parameter twice nothing is decoded (fields and
\* obtained_time as at the start); handing it the pair chunks_remaining = 1,
\* chunks_remaining = 0 next gives the parameter the fields of the entry in
\* one frame, the time of the last chunk as obtained_time for a well-formed
\* entry, and an empty chunk buffer.
C10_DuplicateThenPair ==
    remote.k = 2 =>
        /\ hist = <<1, 1>> =>
              /\ SameEntry(param, before)
              /\ param.obtained_time = before.obtained_time
        /\ hist = <<1, 1, 1, 2>> =>
              /\ SameEntry(param, SingleDecode(now - 1))
              /\ param.chunks = <<>>
              /\ remote.body \in GoodEntries => param.obtained_time = now - 1

C10_Witness ==
    /\ remote.k = 2
    /\ remote.body = SelectionEntry
    /\ hist = <<1, 1, 1, 2>>
    /\ param.type = Some(TEXT_SELECTION_TYPE)
    /\ param.options = <<<<97>>, <<98>>>>
    /\ param.obtained_time = now - 1
    /\ param.chunks = <<>>

\* ---------------------------------------------------------------------
\* Entries in more than one chunk, by kind

\* the k >= 2 chunks of the entry were handed, in order, to a parameter
\* with an empty chunk buffer
ChunkedInOrder == remote.k >= 2 /\ hist = InOrder(remote.k)

\* C11: a FOLDER entry delivered in more than one chunk is rejected: after
\* its terminal chunk the parameter's children, kind and obtained_time are
\* as before and the chunk buffer is empty.
C11_Original ==
    (ChunkedInOrder /\ remote.body = FolderEntry) =>
        /\ param.children = before.children
        /\ param.type = before.type
        /\ param.obtained_time = before.obtained_time
        /\ param.chunks = <<>>

\* C12: the FLOAT fields are decoded as signed 32-bit big-endian integers:
\* four bytes with the top bit set decode to a negative number, and the
\* default FF FF FF FF of the float entry decodes to -1 (-1 * 65536 + 65535).
C12_Original ==
    (remote.body = FloatEntry /\ param.type = Some(FLOAT_TYPE)) =>
        /\ param.default[1][1] < 0
        /\ param.default = Some(Wide(-1, 65535))

(***************************************************************************)
(* C13, C14: writing a FLOAT parameter from the dialogue                   *)
(***************************************************************************)
\* the last step of run() was the ENTER key on the open dialogue of a FLOAT
\* parameter, with a number as the dialogue's text
EnterTyped ==
    /\ remote.plan # <<>>
    /\ menu.keys = <<>>
    /\ menu.pc = "show"
    /\ menu.dialog_param # None
    /\ ParamAt(menu, menu.dialog_param[1]).type = Some(FLOAT_TYPE)
    /\ PyFloat(menu.dialog_val) # None

\* the typed value divided by 10^(-decimal_point), rounded
Quantised ==
    LET f == PyFloat(menu.dialog_val)[1]
        n == f[1] * Pow10[ParamAt(menu, menu.dialog_param[1]).decimal_point[1]]
    IN IF 2 * (n % f[2]) >= f[2] THEN (n \div f[2]) + 1 ELSE n \div f[2]

\* the quantised value lies within [min, max] (both below 65536 here)
QuantisedInRange ==
    LET p == ParamAt(menu, menu.dialog_param[1])
    IN p.min[1][1] = 0 /\ p.max[1][1] = 0
       /\ p.min[1][2] <= Quantised /\ Quantised <= p.max[1][2]

\* C13: writing a FLOAT parameter with a value whose quantised integer lies
\* within [min, max] emits exactly one PARAM_WRITE frame to the device,
\* carrying the parameter index and the quantised integer as 4 bytes
\* big-endian (3.14 with decimal_point 2, min 0, max 1000: 00 00 01 3A).
C13_Original ==
    (EnterTyped /\ QuantisedInRange) =>
        /\ Len(menu.sent) = 1
        /\ FrameType(menu.sent[1]) = MSG_TYPE_PARAM_WRITE
        /\ FrameDestination(menu.sent[1]) = TX_ADDR
        /\ FramePayload(menu.sent[1]) =
               <<menu.dialog_param[1].num>> \o encode_int32(Quantised)
        /\ (menu.dialog_val = <<51, 46, 49, 52>> =>
               FramePayload(menu.sent[1]) = <<1, 0, 0, 1, 58>>)

\* C14: writing a FLOAT parameter with a value whose quantised integer is
\* below min or above max is refused: no frame is written and the parameter
\* is as before.
C14_Original ==
    (EnterTyped /\ ~QuantisedInRange) => menu.sent = <<>>

(***************************************************************************)
(* C15..C20: the frames run() receives and the device registry             *)
(***************************************************************************)
\* the registry: the devices by address and the objects they are
Registry(m) == [a \in DOMAIN m.devices |->
                   IF m.devices[a] = 0 THEN None ELSE Some(m.heap[m.devices[a]])]

\* "Agent Python"
AgentName == <<65, 103, 101, 110, 116, 32, 80, 121, 116, 104, 111, 110>>

\* C15: when run() reads a PING frame it writes exactly one frame, a
\* DEVICE_INFO frame whose destination is the PING's origin and whose origin is
\* the flight controller (0xC8), carrying the name "Agent Python" and a
\* parameter count of 0; the registry is left as it was and run() goes on
\* reading.
C15_PingAnswered ==
    [][\A i \in DOMAIN remote.frames :
          (/\ FrameType(remote.frames[i]) = MSG_TYPE_PING
           /\ menu'.frame = i
           /\ MenuRead(i)) =>
              /\ Len(menu'.sent) = 1
              /\ LET reply == menu'.sent[1]
                     parsed == FrameParse(reply)
                 IN /\ FrameType(reply) = MSG_TYPE_DEVICE_INFO
                    /\ FrameDestination(reply) = FrameOrigin(remote.frames[i])
                    /\ FrameOrigin(reply) = 200
                    /\ parsed.exc = ""
                    /\ parsed.info[1] = AgentName
                    /\ parsed.info[5] = 0
              /\ Registry(menu') = Registry(menu)
              /\ menu'.pc = "frames"]_vars

\* a PING has been read while a device is registered, and answered
C15_Witness ==
    /\ menu.pc = "frames"
    /\ Len(menu.sent) = 1
    /\ FrameType(menu.sent[1]) = MSG_TYPE_DEVICE_INFO
    /\ FrameDestination(menu.sent[1]) = REMOTE_ADDR
    /\ \E a \in DOMAIN menu.devices : menu.devices[a] # 0

\* run() reads frame i of the session, a DEVICE_INFO frame that parses
InfoRead(i) ==
    /\ FrameType(remote.frames[i]) = MSG_TYPE_DEVICE_INFO
    /\ FrameParse(remote.frames[i]).exc = ""
    /\ MenuRead(i)

\* C16: a DEVICE_INFO frame from an address that is registered with the same
\* name, serial number, hardware id, firmware id, parameter count and
\* parameter version changes only that device's last_seen: it stays the same
\* object, with its parameter table and its polling state. From an address
\* that is not registered, or with any of these fields different, the entry
\* becomes a new device with last_seen set and a table of param_count + 1
\* empty slots. No other registry entry changes.
C16_DeviceInfo ==
    [][\A i \in DOMAIN remote.frames :
          InfoRead(i) =>
            LET origin == FrameOrigin(remote.frames[i])
                info == FrameParse(remote.frames[i]).info
                old == Registry(menu)[origin]
                new == Registry(menu')[origin]
            IN /\ new # None /\ new[1].last_seen = now
               /\ new[1].ident = info
               /\ IF old # None /\ old[1].ident = info
                  THEN /\ new[1].dev = old[1].dev
                       /\ menu'.devices[origin] = menu.devices[origin]
                  ELSE /\ new[1].dev.origin = origin
                       /\ new[1].dev.param_count = info[5]
                       /\ new[1].dev.menu = [n \in 0..info[5] |-> None]
                       /\ new[1].dev.last_read_time = 0
                       /\ menu'.devices[origin] # menu.devices[origin]
               /\ \A a \in DOMAIN menu.devices \ {origin} :
                     /\ menu'.devices[a] = menu.devices[a]
                     /\ Registry(menu')[a] = Registry(menu)[a]]_vars

\* a device whose root folder was created before the device was last seen: a
\* DEVICE_INFO frame has refreshed it and its table was kept
C16_Witness ==
    \E a \in DOMAIN menu.devices :
        /\ Registry(menu)[a] # None
        /\ Registry(menu)[a][1].dev.menu[0] # None
        /\ Registry(menu)[a][1].dev.menu[0][1].created_time < Registry(menu)[a][1].last_seen

\* the time since the device registered under address a was last seen
Age(m, a, now_) == now_ - m.heap[m.devices[a]].last_seen

\* C17: after every drawing of the menu the registry holds no device whose
\* last DEVICE_INFO frame was seen IDLE_TIMEOUT_S (60 s) or longer ago; a
\* device seen more recently is never removed from the registry, by the
\* drawing or by any other step; and reading a PARAM_ENTRY frame changes no
\* device's last_seen.
C17_IdleEviction ==
    [][/\ (menu.pc = "show" /\ menu'.pc = "sleep") =>
             \A a \in DOMAIN menu.devices :
                 /\ menu'.devices[a] # 0 => Age(menu', a, now') < IDLE_TIMEOUT_S
                 /\ (menu.devices[a] # 0 /\ Age(menu, a, now) < IDLE_TIMEOUT_S)
                        => menu'.devices[a] = menu.devices[a]
       /\ \A a \in DOMAIN menu.devices :
             (menu.devices[a] # 0 /\ menu'.devices[a] = 0)
                 => (menu.pc = "show" /\ Age(menu, a, now) >= IDLE_TIMEOUT_S)
       /\ \A i \in DOMAIN remote.frames :
             (FrameType(remote.frames[i]) = MSG_TYPE_PARAM_ENTRY /\ MenuRead(i)) =>
                 /\ Len(menu'.heap) = Len(menu.heap)
                 /\ menu'.devices = menu.devices
                 /\ \A oid \in DOMAIN menu.heap :
                       menu'.heap[oid].last_seen = menu.heap[oid].last_seen]_vars

\* the menu has just been drawn; a device last seen exactly IDLE_TIMEOUT_S ago
\* is gone from the registry and one seen later is still there, after a
\* PARAM_ENTRY frame or without
C17_Witness ==
    /\ menu.pc = "sleep"
    /\ \E oid \in DOMAIN menu.heap :
          /\ now - menu.heap[oid].last_seen = IDLE_TIMEOUT_S
          /\ menu.devices[menu.heap[oid].dev.origin] = 0
    /\ \E a \in DOMAIN menu.devices :
          menu.devices[a] # 0 /\ Age(menu, a, now) < IDLE_TIMEOUT_S

\* run() reads frame i of the session, a PARAM_ENTRY frame
EntryRead(i) ==
    /\ FrameType(remote.frames[i]) = MSG_TYPE_PARAM_ENTRY
    /\ MenuRead(i)

\* the parameter tables of all devices, registered or not
Tables(m) == [oid \in DOMAIN m.heap |-> m.heap[oid].dev.menu]

\* C18: a PARAM_ENTRY frame changes at most one parameter: the one at index
\* param_num (the first payload byte) of the device registered under the
\* frame's origin. If no device is registered under the origin, or param_num
\* is greater than the device's param_count, the frame is ignored without an
\* error: no parameter changes. In no case is a device created.
C18_OneParameter ==
    [][\A i \in DOMAIN remote.frames :
          EntryRead(i) =>
            LET origin == FrameOrigin(remote.frames[i])
                param_num == FramePayload(remote.frames[i])[1]
                known == origin \in DOMAIN menu.devices /\ menu.devices[origin] # 0
            IN /\ menu'.devices = menu.devices
               /\ DOMAIN menu'.heap = DOMAIN menu.heap
               /\ \A oid \in DOMAIN menu.heap :
                     /\ DOMAIN Tables(menu')[oid] = DOMAIN Tables(menu)[oid]
                     /\ \A n \in DOMAIN Tables(menu)[oid] :
                           (~known \/ oid # menu.devices[origin] \/ n # param_num)
                               => Tables(menu')[oid][n] = Tables(menu)[oid][n]
               /\ (~known \/ param_num > menu.heap[menu.devices[origin]].dev.param_count)
                     => /\ Tables(menu') = Tables(menu)
                        /\ raised' = ""
                        /\ menu'.pc = "frames"]_vars

\* both parameters of a device have been obtained, each from its own
\* PARAM_ENTRY frame
C18_Witness ==
    \E oid \in DOMAIN menu.heap :
        /\ menu.heap[oid].dev.param_count = 1
        /\ \A n \in 0..1 :
              /\ Tables(menu)[oid][n] # None
              /\ Tables(menu)[oid][n][1].obtained_time # 0
        /\ Tables(menu)[oid][0][1].type = Some(FOLDER_TYPE)
        /\ Tables(menu)[oid][1][1].type = Some(FLOAT_TYPE)

\* C19: a PARAM_ENTRY chunk for a parameter number within the table of the
\* device registered under its origin, whose slot is still empty, creates a
\* parameter in that slot, which takes the chunk (here the whole entry).
C19_Original ==
    [][\A i \in DOMAIN remote.frames :
          EntryRead(i) =>
            LET oid == Registered(menu, FrameOrigin(remote.frames[i]))
                param_num == FramePayload(remote.frames[i])[1]
            IN (/\ oid # 0
                /\ param_num <= menu.heap[oid].dev.param_count
                /\ Tables(menu)[oid][param_num] = None)
                   => /\ Tables(menu')[oid][param_num] # None
                      /\ Tables(menu')[oid][param_num][1].obtained_time # 0]_vars

\* run() reads frame i of the session, a DEVICE_INFO frame with no NUL after
\* the name or with fewer than 14 bytes after the NUL
BadInfoRead(i) ==
    /\ FrameType(remote.frames[i]) = MSG_TYPE_DEVICE_INFO
    /\ LET payload == FramePayload(remote.frames[i])
       IN \/ ~Contains(payload, 0)
          \/ Len(payload) - Index(payload, 0) - 1 < 14
    /\ MenuRead(i)

\* C20: a DEVICE_INFO frame with no NUL after the name, or with fewer than 14
\* bytes after the NUL, is dropped: the registry is unchanged, nothing is
\* raised and run() goes on reading frames.
C20_Original ==
    [][\A i \in DOMAIN remote.frames :
          BadInfoRead(i) =>
              /\ Registry(menu') = Registry(menu)
              /\ raised' = ""
              /\ menu'.pc = "frames"]_vars

(***************************************************************************)
(* C21..C30: failed decodes, the poll scheduler, PING, the transports      *)
(***************************************************************************)
\* the decoded fields of the parameters of all devices: everything but the
\* chunk buffers
Decoded(m) ==
    [oid \in DOMAIN m.heap |->
        [n \in DOMAIN m.heap[oid].dev.menu |->
            IF m.heap[oid].dev.menu[n] = None THEN None
            ELSE Some([m.heap[oid].dev.menu[n][1] EXCEPT !.chunks = <<>>])]]

\* run() reads frame i of the session, a PARAM_ENTRY frame whose entry cannot
\* be decoded, for a parameter that exists
BadEntryRead(i) ==
    /\ \E body \in BadEntries : remote.frames[i] = EntryFrame(0, 0, body)
    /\ Registered(menu, TX_ADDR) # 0
    /\ menu.heap[Registered(menu, TX_ADDR)].dev.menu[0] # None
    /\ MenuRead(i)

\* C21: a PARAM_ENTRY frame whose entry cannot be decoded (shorter than the
\* header, no NUL after the name, a selection without its four value bytes, a
\* string without its max_length byte) is dropped: the decoded fields and the
\* obtained_time of every parameter stay as they were, nothing is raised and
\* run() goes on reading.
C21_Original ==
    [][\A i \in DOMAIN remote.frames :
          BadEntryRead(i) =>
              /\ Decoded(menu') = Decoded(menu)
              /\ raised' = ""
              /\ menu'.pc = "frames"]_vars

\* run() reads frame i of the session, a PARAM_ENTRY chunk that is not the
\* last one, for a parameter that waits for chunks in a buffer with no more
\* slots than the chunk's chunks_remaining
OversizeRead(i) ==
    /\ FrameType(remote.frames[i]) = MSG_TYPE_PARAM_ENTRY
    /\ Registered(menu, TX_ADDR) # 0
    /\ LET slot == menu.heap[Registered(menu, TX_ADDR)].dev.menu[0]
           payload == FramePayload(remote.frames[i])
       IN /\ payload[1] = 0 /\ payload[2] # 0
          /\ slot # None
          /\ slot[1].chunks # <<>>
          /\ payload[2] >= Len(slot[1].chunks)
    /\ MenuRead(i)

\* C32 as stated: a chunk that is not the last one and whose chunks_remaining
\* is not less than the size of the parameter's chunk buffer is a sequence
\* error: the buffer is emptied, nothing is raised and run() goes on reading.
C32_Original ==
    [][\A i \in DOMAIN remote.frames :
          OversizeRead(i) =>
              /\ menu'.heap[Registered(menu, TX_ADDR)].dev.menu[0][1].chunks = <<>>
              /\ raised' = ""
              /\ menu'.pc = "frames"]_vars

\* no PARAM_READ frame is among the frames
NoParamRead(frames) ==
    \A k \in DOMAIN frames : FrameType(frames[k]) # MSG_TYPE_PARAM_READ

\* the device object is registered and was seen less than IDLE_TIMEOUT_S ago
Listed(m, oid, now_) ==
    /\ \E a \in DOMAIN m.devices : m.devices[a] = oid
    /\ now_ - m.heap[oid].last_seen < IDLE_TIMEOUT_S

\* C37: when run() draws the menu and polls, a device object that
\* poll_params changes, or that a PARAM_READ is written for, is the selected
\* device, was registered and seen less than IDLE_TIMEOUT_S ago, and is
\* still registered afterwards; a selected device that was evicted for
\* idleness or replaced in the registry is deselected and no PARAM_READ is
\* written.
C37_PollRegistered ==
    [][menu.pc = "show" =>
          /\ \A oid \in DOMAIN menu.heap :
                (\/ menu'.heap[oid].dev # menu.heap[oid].dev
                 \/ menu.menu_device = oid /\ ~NoParamRead(menu'.sent))
                    => /\ menu.menu_device = oid
                       /\ Listed(menu, oid, now)
                       /\ \E a \in DOMAIN menu'.devices : menu'.devices[a] = oid
          /\ (menu.menu_device # 0 /\ ~Listed(menu, menu.menu_device, now))
                => menu'.menu_device = 0 /\ NoParamRead(menu'.sent)]_vars

\* the menu has just been drawn with nothing written: the device that was
\* selected and polled is no longer selected, another object being
\* registered under its address, or none
C37_Witness ==
    /\ menu.pc = "sleep"
    /\ menu.menu_device = 0
    /\ menu.sent = <<>>
    /\ \E oid \in DOMAIN menu.heap :
          /\ menu.heap[oid].dev.last_read_time # 0
          /\ menu.devices[TX_ADDR] # oid

\* C39 as stated: whenever no device is selected, the stack of menu
\* positions is empty.
C39_Original == menu.menu_device = 0 => menu.menu_pos_stack = <<>>

\* run() is about to draw the menu and poll; a device is selected and stays
\* registered, the root folder is the folder the menu is in, and its
\* parameter has been obtained as something else than a folder
FocusNotFolder ==
    /\ menu.pc = "show"
    /\ menu.menu_device # 0
    /\ menu.menu_folder = 0
    /\ LET d == menu.heap[menu.menu_device]
       IN /\ Registered(menu, d.dev.origin) = menu.menu_device
          /\ ~Idle(d, now)
          /\ d.dev.menu[0] # None
          /\ d.dev.menu[0][1].obtained_time # 0
          /\ ~is_folder(d.dev.menu[0][1])

\* the rate limit lets the selected device be polled
PollAllowed ==
    now - menu.heap[menu.menu_device].dev.last_read_time >= POLL_PERIOD_S

\* C23 as stated: whenever the folder the menu is in has been obtained as
\* something else than a folder, the poll raises InvalidType, writes no
\* PARAM_READ frame, and run() drops back to the device list.
C23_Original ==
    [][FocusNotFolder =>
          /\ menu'.menu_device = 0
          /\ NoParamRead(menu'.sent)]_vars

\* C23: when the folder the menu is in has been obtained as something else
\* than a folder and POLL_PERIOD_S has passed since last_read_time, the poll
\* raises InvalidType and writes no PARAM_READ frame, and run() catches it,
\* drops back to the device list and goes on; before POLL_PERIOD_S has
\* passed the poll returns at once, nothing is raised and the device stays
\* selected.
C23_InvalidType ==
    [][FocusNotFolder =>
          /\ NoParamRead(menu'.sent)
          /\ raised' = ""
          /\ menu'.pc = "sleep"
          /\ menu'.menu_device = IF PollAllowed THEN 0 ELSE menu.menu_device
          /\ menu'.heap[menu.menu_device].dev.menu = menu.heap[menu.menu_device].dev.menu]_vars

\* the device was opened with ENTER, its root folder was obtained as a
\* selection, and run() is back in the device list with the device still
\* registered
C23_Witness ==
    /\ menu.pc = "sleep"
    /\ menu.keys = <<>> /\ remote.keys = <<ENTER_KEY>>
    /\ menu.menu_device = 0
    /\ Registered(menu, TX_ADDR) # 0
    /\ LET dev == menu.heap[Registered(menu, TX_ADDR)].dev
       IN /\ dev.menu[0] # None
          /\ dev.menu[0][1].type = Some(TEXT_SELECTION_TYPE)
          /\ dev.menu[0][1].obtained_time # 0

\* the PING frames among the frames
Pings(frames) ==
    {k \in DOMAIN frames : FrameType(frames[k]) = MSG_TYPE_PING}

\* C25: a round of run() that gets to its end writes one PING frame,
\* C8 04 28 00 C8 8F (destination 0x00, origin 0xC8), as its last frame when
\* more than PING_PERIOD_S has passed since the previous PING, and the first
\* round always does; otherwise it writes no PING. So at the end of every
\* round the last PING is at most PING_PERIOD_S old: as long as the loop
\* runs, PINGs keep being sent.
C25_Ping ==
    [][(menu.pc = "show" /\ menu'.pc = "sleep") =>
          /\ menu.last_ping = 0 => Pings(menu'.sent) # Pings(menu.sent)
          /\ IF now - menu.last_ping > PING_PERIOD_S
             THEN /\ Pings(menu'.sent) = Pings(menu.sent) \cup {Len(menu'.sent)}
                  /\ Len(menu'.sent) > Len(menu.sent)
                  /\ Last(menu'.sent) = <<200, 4, 40, 0, 200, 143>>
                  /\ FrameDestination(Last(menu'.sent)) = BROADCAST_ADDR
                  /\ FrameOrigin(Last(menu'.sent)) = FC_ADDR
                  /\ menu'.last_ping = now
             ELSE /\ Pings(menu'.sent) = Pings(menu.sent)
                  /\ menu'.last_ping = menu.last_ping
          /\ now - menu'.last_ping <= PING_PERIOD_S]_vars

\* run() sent its first PING at StartTime and sends the next one in this
\* round, PING_PERIOD_S and 2.6 s later: the round before, exactly
\* PING_PERIOD_S after the first PING, sent none
C25_Witness ==
    /\ menu.pc = "sleep"
    /\ remote.frames = <<LinkStats>>
    /\ Cardinality(Pings(menu.sent)) = 1
    /\ menu.last_ping = now
    /\ now = StartTime + PING_PERIOD_S + (PING_PERIOD_S \div 2 + 1)

(***************************************************************************)
(* poll_params over time: a device with two parameters whose root folder   *)
(* names its children; the remote device's frames arrive in any order, at  *)
(* any time                                                                *)
(***************************************************************************)
MaxAnswers == 5        \* most frames the polled device is handed
PollCount == 2         \* param_count of the polled device

TwoFolder == <<0, FOLDER_TYPE, 82, 0, 1, 2, 255>>      \* children 1, 2
FarFolder == <<0, FOLDER_TYPE, 82, 0, 3, 1, 255>>      \* children 3, 1

\* what the remote device can send and the times (after StartTime) at which
\* poll_params and process_frame are called
PollRemote(frames, times) == [frames |-> frames, times |-> times]

Root == EntryFrame(0, 0, TwoFolder)
First == EntryFrame(1, 0, Uint8Entry)

PollScenarios ==
    {PollRemote(<<Root, First, EntryFrame(2, 0, InfoEntry)>>, {1, 19, 20}),
     PollRemote(<<Root, First>> \o ChunkFrames(2, StringEntry, <<3, 5>>), {1, 2}),
     PollRemote(<<Root, First>>, {FOLDER_PERIOD_S, FOLDER_PERIOD_S + 1}),
     PollRemote(<<Root, First, ChunkFrames(2, StringEntry, <<3>>)[1]>>,
                {1, PARAM_TIMEOUT_S, PARAM_TIMEOUT_S + 1, PARAM_TIMEOUT_S + 2}),
     PollRemote(<<EntryFrame(0, 0, FarFolder), First>>, {1, POLL_PERIOD_S}),
     PollRemote(<<EntryFrame(0, 0, Uint8Entry)>> \o ChunkFrames(0, TwoFolder, <<3, 5>>),
                {1, POLL_PERIOD_S})}

InitPoll ==
    /\ remote \in PollScenarios
    /\ device = NewDevice(TX_ADDR, PollCount)
    /\ lastPoll = NoPoll
    /\ received = 0
    /\ now = StartTime
    /\ raised = ""
    /\ NoParser /\ NoParam /\ NoMenu

\* device.poll_params(conn, self.menu_folder), the menu in the root folder
PollFolder == Poll(RootFolder)

\* a frame of the remote device arrives: device.process_frame
Answer(i) ==
    /\ i \in 1..Len(remote.frames)
    /\ received < MaxAnswers
    /\ LET r == DeviceProcessFrame(device, remote.frames[i], now)
       IN /\ device' = r.dev
          /\ raised' = r.exc
    /\ received' = received + 1
    /\ UNCHANGED <<parserVars, paramVars, lastPoll, remote, now, menu>>

\* time passes
Pass(t) ==
    /\ t \in remote.times
    /\ StartTime + t > now
    /\ now' = StartTime + t
    /\ UNCHANGED <<parserVars, paramVars, deviceVars, remote, raised, menu>>

NextPoll ==
    \/ PollFolder
    \/ \E i \in 1..MaxAnswers : Answer(i)
    \/ \E t \in remote.times : Pass(t)

SpecPoll == InitPoll /\ [][NextPoll]_vars

\* a step of SpecPoll that is a call of poll_params
PollStep == received' = received /\ now' = now

\* C27: a call of poll_params writes at most one frame, a PARAM_READ to the
\* device, and none when less than POLL_PERIOD_S has passed since
\* last_read_time (it then changes nothing); when it writes a frame,
\* last_read_frame becomes the parameter number in that frame and
\* last_read_time the time of the call; when it writes none, last_read_frame
\* stays.
C27_OneRead ==
    [][PollStep =>
          LET frame == lastPoll'.frame
          IN /\ now - device.last_read_time < POLL_PERIOD_S =>
                    frame = <<>> /\ device' = device /\ raised' = ""
             /\ frame # <<>> =>
                    /\ Len(frame) = 8
                    /\ frame[3] = MSG_TYPE_PARAM_READ
                    /\ frame[4] = TX_ADDR /\ frame[5] = FC_ADDR
                    /\ frame[8] = calc_crc8(PySlice(frame, 2, 7))
                    /\ device'.last_read_frame = frame[6]
                    /\ device'.last_read_time = now
             /\ frame = <<>> => device'.last_read_frame = device.last_read_frame]_vars

\* the last call wrote a PARAM_READ for chunk 1 of parameter 2, a tenth of a
\* second after the call before it: the device had answered in between
C27_Witness ==
    /\ lastPoll.frame # <<>>
    /\ lastPoll.frame[6] = 2 /\ lastPoll.frame[7] = 1
    /\ device.last_read_frame = 2
    /\ device.last_read_time = now
    /\ now = StartTime + 2
    /\ remote.times = {1, 2}

\* a step of SpecPoll that is a call of process_frame
AnswerStep == received' = received + 1

\* the frame process_frame was called with is about parameter n: only the
\* slot of n may have changed
AboutParam(n) ==
    /\ \E i \in 1..Len(remote.frames) : FramePayload(remote.frames[i])[1] = n
    /\ \A k \in 0..PollCount : k # n => device'.menu[k] = device.menu[k]

\* C31: a PARAM_ENTRY whose parameter number equals last_read_frame moves
\* last_read_time back by 0.95 * POLL_PERIOD_S, so that poll_params is no
\* longer rate limited once 5% of POLL_PERIOD_S has passed since the time
\* last_read_time held; a PARAM_ENTRY about another parameter leaves
\* last_read_time as it was; neither changes last_read_frame.
C31_SpeedUp ==
    [][AnswerStep =>
          /\ device'.last_read_frame = device.last_read_frame
          /\ \/ /\ AboutParam(device.last_read_frame)
                /\ device'.last_read_time = device.last_read_time - POLL_SPEED_UP
                /\ ~RateLimited(device', device.last_read_time
                                           + POLL_PERIOD_S - POLL_SPEED_UP)
                /\ RateLimited(device, device.last_read_time
                                           + POLL_PERIOD_S - POLL_SPEED_UP)
             \/ /\ \E n \in 0..PollCount :
                       n # device.last_read_frame /\ AboutParam(n)
                /\ device'.last_read_time = device.last_read_time]_vars

\* parameter 1 was asked for at StartTime + 1 and its entry has arrived:
\* last_read_time is 1.9 s before the request, and the entry is decoded
C31_Witness ==
    /\ lastPoll.frame # <<>> /\ lastPoll.frame[6] = 1
    /\ device.last_read_frame = 1
    /\ now = StartTime + 1
    /\ device.last_read_time = now - POLL_SPEED_UP
    /\ device.menu[1] # None /\ device.menu[1][1].obtained_time = now

\* the number of the first empty slot of a chunk buffer, 0 for the empty buffer
FirstGap(chunks) ==
    IF chunks = <<>> THEN 0
    ELSE (CHOOSE k \in DOMAIN chunks :
              chunks[k] = None /\ \A j \in 1..(k - 1) : chunks[j] # None) - 1

\* the buffer has slots and every one is filled
Full(chunks) == chunks # <<>> /\ \A k \in DOMAIN chunks : chunks[k] # None

\* the rate limit lets the device be polled
Allowed == now - device.last_read_time >= POLL_PERIOD_S

\* the folder's parameter was never obtained or more than FOLDER_PERIOD_S ago
Stale ==
    \/ device.menu[RootFolder] = None
    \/ device.menu[RootFolder][1].obtained_time = 0
    \/ now - device.menu[RootFolder][1].obtained_time > FOLDER_PERIOD_S

\* C28: when the poll is allowed and the folder's parameter was never
\* obtained, or was obtained more than FOLDER_PERIOD_S ago, the call
\* touches no child slot and any frame it writes is the PARAM_READ for the
\* folder itself, asking for its first missing chunk; it writes that frame
\* unless the parameter turns out not to be a folder (InvalidType) or its
\* chunk buffer is full.
C28_FolderFirst ==
    [][(PollStep /\ Allowed /\ Stale) =>
          LET f == device.menu[RootFolder]
              frame == lastPoll'.frame
              wrong == f # None /\ f[1].obtained_time # 0 /\ ~is_folder(f[1])
          IN /\ \A n \in 1..PollCount : device'.menu[n] = device.menu[n]
             /\ frame # <<>> =>
                    /\ frame[6] = RootFolder
                    /\ frame[7] = IF f = None THEN 0 ELSE FirstGap(f[1].chunks)
             /\ frame = <<>> <=> (wrong \/ (f # None /\ Full(f[1].chunks)))
             /\ raised' = IF wrong THEN "InvalidType" ELSE ""]_vars

\* the folder was obtained FOLDER_PERIOD_S and a tenth of a second ago, its
\* first child has a parameter, and the call just made asked for the folder
C28_Witness ==
    /\ device.menu[RootFolder] # None
    /\ device.menu[RootFolder][1].obtained_time # 0
    /\ now - device.menu[RootFolder][1].obtained_time = FOLDER_PERIOD_S + 1
    /\ device.menu[1] # None
    /\ device.last_read_time = now
    /\ lastPoll.frame # <<>> /\ lastPoll.frame[6] = RootFolder

\* the folder's parameter is a folder obtained at most FOLDER_PERIOD_S ago
Fresh ==
    /\ device.menu[RootFolder] # None
    /\ device.menu[RootFolder][1].obtained_time # 0
    /\ is_folder(device.menu[RootFolder][1])
    /\ now - device.menu[RootFolder][1].obtained_time <= FOLDER_PERIOD_S

\* the children the folder declares, in its order
Declared == device.menu[RootFolder][1].children[1]

\* the child has a slot in the table that is empty, or holds a parameter
\* created more than PARAM_TIMEOUT_S ago and never obtained
Vacant(child) ==
    /\ InMenu(device, child)
    /\ \/ device.menu[child] = None
       \/ /\ device.menu[child][1].obtained_time = 0
          /\ now - device.menu[child][1].created_time > PARAM_TIMEOUT_S

\* the child's parameter waits for a chunk
Gapped(child) ==
    /\ InMenu(device, child)
    /\ device.menu[child] # None
    /\ Contains(device.menu[child][1].chunks, None)

\* the places in the declared order of children that need attention
Needy == {i \in DOMAIN Declared : Vacant(Declared[i]) \/ Gapped(Declared[i])}

\* the first of them
FirstNeedy == Declared[CHOOSE i \in Needy : \A j \in Needy : i <= j]

\* C29 as stated: with the folder fresh, an allowed call queries the first
\* declared child that has an empty slot, or was created more than
\* PARAM_TIMEOUT_S ago without being obtained (both get a new empty
\* parameter), or misses a chunk, and touches no other child; the chunk
\* asked for is the first empty slot of the child's buffer, 0 when the
\* buffer is empty.
C29_Original ==
    [][(PollStep /\ Allowed /\ Fresh /\ Needy # {}) =>
          LET child == FirstNeedy
              frame == lastPoll'.frame
          IN /\ raised' = ""
             /\ frame # <<>>
             /\ frame[6] = child
             /\ frame[7] = IF Vacant(child) THEN 0
                           ELSE FirstGap(device.menu[child][1].chunks)
             /\ device'.menu[child] = IF Vacant(child) THEN Some(NewParam(child, now))
                                      ELSE device.menu[child]
             /\ \A n \in 0..PollCount : n # child => device'.menu[n] = device.menu[n]]_vars

\* how long ago the child at place i of the declared order was obtained
AgeAt(i) == now - device.menu[Declared[i]][1].obtained_time

\* the child obtained longest ago, the first in the declared order on a tie
Oldest ==
    Declared[CHOOSE i \in DOMAIN Declared :
                 /\ \A j \in DOMAIN Declared : AgeAt(j) <= AgeAt(i)
                 /\ \A j \in 1..(i - 1) : AgeAt(j) < AgeAt(i)]

\* C30 as stated: with the folder fresh and no child in need of attention,
\* an allowed call writes the PARAM_READ for the child obtained longest
\* ago, the first in the declared order on a tie, and changes no parameter.
C30_Original ==
    [][(PollStep /\ Allowed /\ Fresh /\ Needy = {} /\ Declared # <<>>
            /\ \A i \in DOMAIN Declared : InMenu(device, Declared[i])) =>
          /\ raised' = ""
          /\ lastPoll'.frame # <<>>
          /\ lastPoll'.frame[6] = Oldest
          /\ lastPoll'.frame[7] = 0
          /\ device'.menu = device.menu]_vars

(***************************************************************************)
(* poll_params against a stub device that answers every PARAM_READ with    *)
(* the chunk asked for, before the next poll is due                        *)
(***************************************************************************)
MaxAsked == 6          \* most requests the stub device answers

SubFolder == <<0, FOLDER_TYPE, 83, 0, 2, 255>>         \* child 2
Leaf == <<1, 0, 85, 0, 5, 0, 10, 1, 0>>                \* a UINT8 in folder 1

\* a stub device: for every parameter the frames of its entry, and the
\* PARAM_READ it has not answered yet (<<>> if none)
Stub(root, first, second) ==
    [entries |-> <<root, first, second>>, request |-> <<>>]

Stubs ==
    {Stub(<<Root>>, <<First>>, ChunkFrames(2, StringEntry, <<3>>)),
     Stub(<<EntryFrame(0, 0, FolderEntry)>>, <<EntryFrame(1, 0, SubFolder)>>,
          <<EntryFrame(2, 0, Leaf)>>)}

\* the frame the stub answers the request with
Reply(stub) == stub.entries[stub.request[6] + 1][stub.request[7] + 1]

InitLive ==
    /\ remote \in Stubs
    /\ device = NewDevice(TX_ADDR, PollCount)
    /\ lastPoll = NoPoll
    /\ received = 0
    /\ now = StartTime
    /\ raised = ""
    /\ NoParser /\ NoParam /\ NoMenu

\* run() calls device.poll_params(conn, self.menu_folder) in every round
Ask ==
    /\ received < MaxAsked
    /\ LET r == PollParams(device, RootFolder, now)
       IN /\ device' = r.dev
          /\ lastPoll' = [selected |-> r.selected, frame |-> r.frame]
          /\ raised' = r.exc
          /\ remote' = IF r.frame = <<>> THEN remote
                       ELSE [remote EXCEPT !.request = r.frame]
    /\ UNCHANGED <<parserVars, paramVars, received, now, menu>>

\* the stub's answer arrives: device.process_frame
Respond ==
    /\ remote.request # <<>>
    /\ LET r == DeviceProcessFrame(device, Reply(remote), now)
       IN /\ device' = r.dev
          /\ raised' = r.exc
    /\ remote' = [remote EXCEPT !.request = <<>>]
    /\ received' = received + 1
    /\ UNCHANGED <<parserVars, paramVars, lastPoll, now, menu>>

\* time passes: until just before the next poll is due while the stub's
\* answer is on its way, and until the next poll is due while the rate limit
\* makes the rounds of run() pass without a poll
Advance ==
    /\ RateLimited(device, now)
    /\ now' = IF remote.request # <<>>
              THEN device.last_read_time + POLL_PERIOD_S - 1
              ELSE device.last_read_time + POLL_PERIOD_S
    /\ now' > now
    /\ UNCHANGED <<parserVars, paramVars, deviceVars, remote, raised, menu>>

NextLive == Ask \/ Respond \/ Advance

\* run() keeps polling and time keeps passing; the stub answers every
\* request: no request stays unanswered for ever
SpecLive ==
    InitLive /\ [][NextLive]_vars
    /\ WF_vars(Ask) /\ WF_vars(Advance)
    /\ []<>(remote.request = <<>>)

Obtained(n) == device.menu[n] # None /\ device.menu[n][1].obtained_time > 0

MaxSent == 2           \* most frames run() writes
TCP_RECV == 2048

\* a FIFO handed out from the wrong end
GetNewest(frames) ==
    [frame |-> frames[Len(frames)], rest |-> SubSeq(frames, 1, Len(frames) - 1)]

\* in_queue.get(block=False) and self.frames.pop(0) on a non-empty queue
Get(frames) == [frame |-> Head(frames), rest |-> Tail(frames)]

\* SerialConnection.__init__ / TCPConnection.__init__ and run() before its
\* first round: queue is in_queue or self.frames, pending the frames the
\* reader thread's "for frame in self.parser.digest(data)" has still to
\* put, handed the frames read_crsf has returned, socket whether
\* self.socket exists, running whether run() is still executing
NewConn(kind) ==
    [kind |-> kind, queue |-> <<>>, pending |-> <<>>, handed |-> <<>>,
     socket |-> TRUE, sent |-> 0, running |-> TRUE]

\* the frames the remote end sends, back to back
Sent(kind, frames) ==
    [kind |-> kind, frames |-> frames, wire |-> Wire(frames)]

ConnScenarios ==
    {Sent(kind, <<PingFrame, LinkStats, PingFrame>>) : kind \in {"uart", "tcp"}}

InitConn ==
    /\ scen \in ConnScenarios
    /\ todo = scen.wire
    /\ data = <<>>
    /\ out = <<>>
    /\ conn = NewConn(scen.kind)
    /\ NoParam /\ NoDevice /\ NoMenu
    /\ remote = None /\ now = 0 /\ raised = ""

Rest == <<paramVars, deviceVars, remote, now, menu>>

\* read_thread: serial.read returns the next n bytes and digest parses them
ReaderRead(n) ==
    /\ conn.kind = "uart" /\ conn.pending = <<>>
    /\ n \in 1..Len(todo)
    /\ LET r == ParserDigest(data, SubSeq(todo, 1, n))
       IN /\ data' = r.data
          /\ out' = out \o r.frames
          /\ conn' = [conn EXCEPT !.pending = r.frames]
    /\ todo' = DropFirst(todo, n)
    /\ UNCHANGED <<scen, raised, Rest>>

\* read_thread: self.in_queue.put(frame, block=False)
ReaderPut ==
    /\ conn.kind = "uart" /\ conn.pending # <<>>
    /\ conn' = [conn EXCEPT !.queue = Append(@, Head(conn.pending)),
                            !.pending = Tail(@)]
    /\ UNCHANGED <<data, out, todo, scen, raised, Rest>>

\* run(): SerialConnection.read_crsf returns a frame (with the queue empty it
\* returns None and nothing changes)
QueueRead ==
    /\ conn.kind = "uart" /\ conn.running /\ conn.queue # <<>>
    /\ conn' = [conn EXCEPT !.queue = Get(conn.queue).rest,
                            !.handed = Append(@, Get(conn.queue).frame)]
    /\ UNCHANGED <<data, out, todo, scen, raised, Rest>>

\* what TCPConnection.read_crsf does after recv: "Return next frame"
Popped(c, frames) ==
    IF c.queue \o frames = <<>> THEN c
    ELSE [c EXCEPT !.queue = Get(c.queue \o frames).rest,
                   !.handed = Append(@, Get(c.queue \o frames).frame)]

\* run(): TCPConnection.read_crsf, recv returns the next n bytes
TcpRead(n) ==
    /\ conn.kind = "tcp" /\ conn.running /\ conn.socket
    /\ n \in 1..Min(Len(todo), TCP_RECV)
    /\ LET r == ParserDigest(data, SubSeq(todo, 1, n))
       IN /\ data' = r.data
          /\ out' = out \o r.frames
          /\ conn' = Popped(conn, r.frames)
    /\ todo' = DropFirst(todo, n)
    /\ UNCHANGED <<scen, raised, Rest>>

\* run(): TCPConnection.read_crsf, recv raises socket.timeout
TcpTimeout ==
    /\ conn.kind = "tcp" /\ conn.running /\ conn.socket
    /\ conn' = Popped(conn, <<>>)
    /\ UNCHANGED <<data, out, todo, scen, raised, Rest>>

\* run(): TCPConnection.read_crsf, recv raises another exception (the peer is
\* gone, and what it had still to send with it): read_crsf deletes
\* self.socket and raises, run() leaves its reading loop ("except Exception:
\* break") and goes on with its round. Every later read_crsf raises
\* AttributeError, which run() treats the same way.
TcpFail ==
    /\ conn.kind = "tcp" /\ conn.running /\ conn.socket
    /\ conn' = [conn EXCEPT !.socket = FALSE]
    /\ todo' = <<>>
    /\ UNCHANGED <<data, out, scen, raised, Rest>>

\* run(): self.write_crsf(frame), for a PING or a PARAM_READ; without
\* self.socket send raises AttributeError, which nothing in run() catches
Write ==
    /\ conn.running /\ conn.sent < MaxSent
    /\ IF conn.kind = "tcp" /\ ~conn.socket
       THEN conn' = [conn EXCEPT !.running = FALSE] /\ raised' = "AttributeError"
       ELSE conn' = [conn EXCEPT !.sent = @ + 1] /\ raised' = raised
    /\ UNCHANGED <<data, out, todo, scen, Rest>>

NextConn ==
    \/ \E n \in 1..Len(todo) : ReaderRead(n)
    \/ ReaderPut
    \/ QueueRead
    \/ \E n \in 1..Len(todo) : TcpRead(n)
    \/ TcpTimeout
    \/ TcpFail
    \/ Write

SpecConn == InitConn /\ [][NextConn]_vars

\* C24 as stated: once the TCP transport has failed, what run() does next is
\* to reconnect from scratch: a new socket, an empty parser buffer and no
\* frames left over; it does not go on using the dead connection.
C24_Original ==
    [][~conn.socket =>
          /\ conn'.socket
          /\ data' = <<>> /\ conn'.queue = <<>>
          /\ raised' = ""]_vars

IsPrefix(s, t) == Len(s) <= Len(t) /\ s = SubSeq(t, 1, Len(s))

\* C26: the frames read_crsf has handed to run() are, in order and each
\* once, the first of the frames that were sent; the frames still in the
\* queue or in the reader thread's hands follow them in the order sent; and
\* once everything sent has been read and the queue is drained, every frame
\* sent has been handed over. This holds for the UART, however the reader
\* thread and run() interleave, and for TCP while the connection lasts.
C26_WireOrder ==
    /\ IsPrefix(conn.handed, scen.frames)
    /\ IsPrefix(conn.handed \o conn.queue \o conn.pending, scen.frames)
    /\ (todo = <<>> /\ conn.queue = <<>> /\ conn.pending = <<>> /\ conn.socket)
           => conn.handed = scen.frames

\* the reader thread has put the second frame while run() had not yet taken
\* the first, parsed the third and still holds it, and run() has meanwhile
\* taken the first
C26_Witness ==
    /\ conn.kind = "uart"
    /\ conn.handed = <<PingFrame>>
    /\ conn.queue = <<LinkStats>>
    /\ conn.pending = <<PingFrame>>

\* C34: between two calls of digest the parser's buffer holds fewer than 4
\* bytes, or it starts with SYNC and holds fewer bytes than its LEN byte + 2;
\* so it never holds more than 256 bytes, whatever was fed.
C34_BufferBound ==
    /\ \/ Len(data) < 4
       \/ data[1] = SYNC /\ Len(data) < data[2] + 2
    /\ Len(data) <= 256

\* the buffer holds 256 bytes, SYNC, LEN = 255 and all of the frame but its
\* last byte, fed in several calls
C34_Witness ==
    /\ Len(data) = 256
    /\ data[1] = SYNC /\ data[2] = 255
    /\ todo = <<>>
    /\ out = <<>>

\* C35 as stated: whatever PARAM_ENTRY frames and polls a device has seen,
\* the chunk buffer of each of its parameters is empty or has an empty
\* slot, and a poll that selected a parameter wrote a PARAM_READ for it.
C35_Original ==
    /\ \A n \in 0..PollCount :
          device.menu[n] # None =>
              \/ device.menu[n][1].chunks = <<>>
              \/ Contains(device.menu[n][1].chunks, None)
    /\ lastPoll.selected # NoneVal => lastPoll.frame # <<>>

\* the folder declares a child that the device's table has no slot for
Overdeclared == \E i \in DOMAIN Declared : ~InMenu(device, Declared[i])

\* C36 as stated: whatever children the folder declares, a call of
\* poll_params reads and writes only the slots 0..param_count of the table:
\* a child with a greater number is passed over, the call does not fail, and
\* a parameter it selects is one of the table.
C36_Original ==
    [][(PollStep /\ Allowed /\ Fresh /\ Overdeclared) =>
          /\ raised' = ""
          /\ lastPoll'.selected # NoneVal => InMenu(device, lastPoll'.selected)
          /\ DOMAIN device'.menu = DOMAIN device.menu]_vars

\* C38: a parameter that has been obtained stays the same object in its
\* slot and its obtained_time never decreases, whatever is polled or
\* received; a call of poll_params changes a slot only by putting a new
\* parameter there, and only where the slot was empty or its parameter had
\* never been obtained.
C38_ObtainedKept ==
    [][\A n \in 0..PollCount :
          /\ (device.menu[n] # None /\ device.menu[n][1].obtained_time > 0) =>
                /\ device'.menu[n] # None
                /\ device'.menu[n][1].created_time = device.menu[n][1].created_time
                /\ device'.menu[n][1].obtained_time >= device.menu[n][1].obtained_time
          /\ (PollStep /\ device'.menu[n] # device.menu[n]) =>
                /\ device'.menu[n] = Some(NewParam(n, now))
                /\ \/ device.menu[n] = None
                   \/ device.menu[n][1].obtained_time = 0]_vars

\* the folder was obtained, and obtained again PARAM_TIMEOUT_S later; the
\* last call of poll_params has replaced the parameter of child 1, created
\* more than PARAM_TIMEOUT_S before and never obtained, and left the folder
C38_Witness ==
    /\ device.menu[RootFolder] # None
    /\ device.menu[RootFolder][1].created_time = StartTime
    /\ device.menu[RootFolder][1].obtained_time = StartTime + PARAM_TIMEOUT_S
    /\ device.menu[1] # None
    /\ device.menu[1][1].created_time = StartTime + PARAM_TIMEOUT_S + 2
    /\ lastPoll.selected = 1
    /\ now = StartTime + PARAM_TIMEOUT_S + 2

(***************************************************************************)
(* The rounds of run() over the UART: the reading loop at the head of each *)
(* round, fed by the reader thread, and the rest of the round              *)
(***************************************************************************)
MaxRounds == 3         \* most rounds of run()

\* the connection and run() before its first round: pc is "frames" in the
\* reading loop and "round" after it, dispatched the frames run() has
\* dispatched by type, round the number of rounds finished
NewLoop ==
    [kind |-> "uart", queue |-> <<>>, pending |-> <<>>, handed |-> <<>>,
     socket |-> TRUE, sent |-> 0, running |-> TRUE,
     pc |-> "frames", dispatched |-> <<>>, round |-> 0]

DrainScenarios ==
    {Sent("uart", <<PingFrame, LinkStats, PingFrame>>),
     Sent("uart", <<LinkStats, LinkStats, InfoTX>>)}

InitDrain ==
    /\ scen \in DrainScenarios
    /\ todo = scen.wire
    /\ data = <<>>
    /\ out = <<>>
    /\ conn = NewLoop
    /\ NoParam /\ NoDevice /\ NoMenu
    /\ remote = None /\ now = 0 /\ raised = ""

\* run(): "if frame and frame.type != CRSF.MSG_TYPE_LINK_STATS: ... else:
\* break" for the frame read_crsf returned
Dispatched(c, frame) ==
    IF FrameType(frame) # MSG_TYPE_LINK_STATS
    THEN [c EXCEPT !.dispatched = Append(@, frame)]
    ELSE [c EXCEPT !.pc = "round"]

\* run(): read_crsf returns a frame of the queue
LoopRead ==
    /\ conn.pc = "frames" /\ conn.queue # <<>>
    /\ conn' = Dispatched([conn EXCEPT !.queue = Get(conn.queue).rest,
                                       !.handed = Append(@, Get(conn.queue).frame)],
                          Get(conn.queue).frame)
    /\ UNCHANGED <<data, out, todo, scen, raised, Rest>>

\* run(): read_crsf finds the queue empty and returns None
LoopEmpty ==
    /\ conn.pc = "frames" /\ conn.queue = <<>>
    /\ conn' = [conn EXCEPT !.pc = "round"]
    /\ UNCHANGED <<data, out, todo, scen, raised, Rest>>

\* run(): the keyboard, the menu, the poll and time.sleep(0.01)
LoopRound ==
    /\ conn.pc = "round" /\ conn.round < MaxRounds
    /\ conn' = [conn EXCEPT !.pc = "frames", !.round = @ + 1]
    /\ UNCHANGED <<data, out, todo, scen, raised, Rest>>

NextDrain ==
    \/ \E n \in 1..Len(todo) : ReaderRead(n)
    \/ ReaderPut
    \/ LoopRead
    \/ LoopEmpty
    \/ LoopRound

SpecDrain == InitDrain /\ [][NextDrain]_vars

\* C33 as stated: run() leaves the reading loop of a round only when the
\* transport has no frame for it: a frame queued behind a LINK_STATS frame is
\* read and dispatched in the same round.
C33_Original ==
    [][conn.pc = "frames" /\ conn'.pc = "round" => conn.queue = <<>>]_vars

====
